---- MODULE Spec2Model ----
(***************************************************************************)
(* A model of the gtree directory-tree engine:                             *)
(*   - the in-process GtreeService (createIgnoreInstance, scanDirectory,   *)
(*     formatTree, generateTree), and                                      *)
(*   - parseTreeArgs and the handler of the gtree tool,                    *)
(*   - the fd-based GtreeService.generateTree with its two child           *)
(*     processes, and                                                      *)
(*   - CwdService.                                                         *)
(* Strings are TLA+ strings; the string and path functions of the runtime  *)
(* (startsWith, includes, split, trim, path.resolve, path.relative, ...)   *)
(* are computed character by character.                                    *)
(***************************************************************************)
EXTENDS Integers, Sequences, FiniteSets, TLC

VARIABLES
    fs,            \* the file system: absolute path -> entry
    pc,            \* position of the generateTree call
    impl,          \* which GtreeService.generateTree is running
    targetPath,    \* generateTree's first argument, as passed
    options,       \* the GtreeOptions object of the in-process call
    absolutePath,  \* the resolved target
    allIgnores,    \* the pattern list held by the ignore instance
    stack,         \* the activation records of scanDirectory
    nodes,         \* the FileNode[] returned by the outermost scanDirectory
    result,        \* the string generateTree returned
    error,         \* the message of the Error generateTree threw
    fsOps,         \* the file-system calls made so far, in order
    spawned,       \* the child processes spawned so far, in order
    basePath,      \* process.env.GTREE_BASE_PATH as read by the fd-based call
    treeArgs,      \* the treeArgs argument of the fd-based call
    firstResult,   \* what an earlier call with the same arguments returned
    ig,            \* a call of the ignores predicate: patterns, path, answer
    parse,         \* the call of parseTreeArgs: its argument and its locals
    tool,          \* the call of the gtree tool: its parameters and its reply
    child,         \* the fd-based call's promise, child processes and buffers
    cwd            \* the call of CwdService: environment, argument and outcome

treeVars == <<fs, pc, impl, targetPath, options, absolutePath, allIgnores, stack,
              nodes, result, error, fsOps, spawned, basePath, treeArgs>>

auxVars == <<firstResult, ig, parse, tool, child, cwd>>

vars == <<fs, pc, impl, targetPath, options, absolutePath, allIgnores, stack,
          nodes, result, error, fsOps, spawned, basePath, treeArgs,
          firstResult, ig, parse, tool, child, cwd>>

(***************************************************************************)
(* Bounds of the model.                                                    *)
(***************************************************************************)
MaxDepthOpt == 2      \* the largest maxDepth a call is given
MaxRootEntries == 2   \* the number of root entries a generated project holds
MaxArgs == 3          \* the longest argument list parseTreeArgs is given
MaxChunks == 1        \* the number of 'data' events a stream emits
MaxPatterns == 2      \* the longest pattern list the ignores predicate is asked with

Undefined == "undefined"   \* an environment variable that is not set
None == "none"             \* no string: nothing returned, nothing thrown

\* An optional field of an object: Unset when undefined, otherwise <<value>>.
Unset == <<>>
Some(v) == <<v>>
IsSet(o) == Len(o) > 0

(***************************************************************************)
(* String functions of the runtime.                                        *)
(***************************************************************************)
CharAt(s, i) == SubSeq(s, i, i)

StartsWith(s, p) == Len(p) <= Len(s) /\ SubSeq(s, 1, Len(p)) = p

EndsWith(s, p) == Len(p) <= Len(s) /\ SubSeq(s, Len(s) - Len(p) + 1, Len(s)) = p

Includes(s, p) == \E i \in 1..(Len(s) - Len(p) + 1) : SubSeq(s, i, i + Len(p) - 1) = p

\* The position of the first c in s from position i on, 0 when there is none.
RECURSIVE IndexFrom(_, _, _)
IndexFrom(s, c, i) ==
    IF i > Len(s) THEN 0
    ELSE IF CharAt(s, i) = c THEN i
    ELSE IndexFrom(s, c, i + 1)

IndexOf(s, c) == IndexFrom(s, c, 1)

RECURSIVE Split(_, _)
Split(s, sep) ==
    LET i == IndexOf(s, sep)
    IN  IF i = 0 THEN <<s>>
        ELSE <<SubSeq(s, 1, i - 1)>> \o Split(SubSeq(s, i + 1, Len(s)), sep)

IsWhitespace(c) == c \in {" ", "\t", "\n", "\r", "\f"}

RECURSIVE TrimStart(_)
TrimStart(s) ==
    IF Len(s) > 0 /\ IsWhitespace(CharAt(s, 1)) THEN TrimStart(SubSeq(s, 2, Len(s))) ELSE s

RECURSIVE TrimEnd(_)
TrimEnd(s) ==
    IF Len(s) > 0 /\ IsWhitespace(CharAt(s, Len(s)))
    THEN TrimEnd(SubSeq(s, 1, Len(s) - 1)) ELSE s

Trim(s) == TrimEnd(TrimStart(s))

RECURSIVE ReplaceAll(_, _, _)
ReplaceAll(s, c, d) ==
    IF Len(s) = 0 THEN ""
    ELSE (IF CharAt(s, 1) = c THEN d ELSE CharAt(s, 1)) \o ReplaceAll(SubSeq(s, 2, Len(s)), c, d)

RECURSIVE JoinWith(_, _)
JoinWith(segs, sep) ==
    IF Len(segs) = 0 THEN ""
    ELSE IF Len(segs) = 1 THEN segs[1]
    ELSE segs[1] \o sep \o JoinWith(Tail(segs), sep)

(***************************************************************************)
(* The path module (POSIX).                                                *)
(***************************************************************************)
Cwd == "/w/proj"

IsAbsolute(p) == StartsWith(p, "/")

RECURSIVE NormalizeSegments(_, _)
NormalizeSegments(segs, acc) ==
    IF Len(segs) = 0 THEN acc
    ELSE LET h == Head(segs)
         IN  IF h = "" \/ h = "." THEN NormalizeSegments(Tail(segs), acc)
             ELSE IF h = ".."
                  THEN NormalizeSegments(Tail(segs),
                          IF Len(acc) = 0 THEN acc ELSE SubSeq(acc, 1, Len(acc) - 1))
                  ELSE NormalizeSegments(Tail(segs), Append(acc, h))

AbsoluteFrom(segs) == "/" \o JoinWith(segs, "/")

SegmentsOf(abs) == NormalizeSegments(Split(abs, "/"), <<>>)

PathResolve2(from, to) ==
    IF IsAbsolute(to) THEN AbsoluteFrom(SegmentsOf(to))
    ELSE IF IsAbsolute(from) THEN AbsoluteFrom(SegmentsOf(from \o "/" \o to))
    ELSE AbsoluteFrom(SegmentsOf(Cwd \o "/" \o from \o "/" \o to))

PathResolve(p) == PathResolve2(Cwd, p)

PathJoin(a, b) ==
    LET segs == NormalizeSegments(Split(a \o "/" \o b, "/"), <<>>)
    IN  IF IsAbsolute(a) THEN AbsoluteFrom(segs)
        ELSE IF Len(segs) = 0 THEN "." ELSE JoinWith(segs, "/")

RECURSIVE CommonPrefixLen(_, _)
CommonPrefixLen(a, b) ==
    IF Len(a) > 0 /\ Len(b) > 0 /\ Head(a) = Head(b)
    THEN 1 + CommonPrefixLen(Tail(a), Tail(b)) ELSE 0

PathRelative(from, to) ==
    LET f == SegmentsOf(PathResolve(from))
        t == SegmentsOf(PathResolve(to))
        k == CommonPrefixLen(f, t)
        ups == [i \in 1..(Len(f) - k) |-> ".."]
    IN  JoinWith(ups \o SubSeq(t, k + 1, Len(t)), "/")

PathBasename(p) ==
    LET segs == NormalizeSegments(Split(p, "/"), <<>>)
    IN  IF Len(segs) = 0 THEN "" ELSE segs[Len(segs)]

(***************************************************************************)
(* The file systems the calls run on.  Universe maps a path relative to    *)
(* the project root to an entry; a directory's entries are in the order    *)
(* readdirSync returns them.  A file system holds /w with notes.txt and     *)
(* proj (the process working directory), and under proj a selection of the *)
(* root entries of Universe with everything below them.                    *)
(***************************************************************************)
ProjRoot == "/w/proj"

File(content) == [kind |-> "file", content |-> content, readable |-> TRUE]
Dir(entries) == [kind |-> "dir", entries |-> entries, readable |-> TRUE]

UniverseRoot ==
    <<"visible_file.txt", "level1_file.txt", "src", "ignored_file.txt",
      "ignored_dir", ".hidden", "level1_dir">>

Universe ==
       "visible_file.txt" :> File("content")
    @@ "level1_file.txt" :> File("")
    @@ "ignored_file.txt" :> File("should be ignored")
    @@ "src" :> Dir(<<"Beta.ts", ".git", "alpha.ts", "node_modules", "build", ".env",
                      ".gitignore">>)
    @@ "src/.gitignore" :> File("alpha.ts\nbuild/\n")
    @@ "src/Beta.ts" :> File("")
    @@ "src/alpha.ts" :> File("")
    @@ "src/.env" :> File("")
    @@ "src/.git" :> Dir(<<"config">>)
    @@ "src/.git/config" :> File("")
    @@ "src/build" :> Dir(<<"out.js">>)
    @@ "src/build/out.js" :> File("")
    @@ "ignored_dir" :> Dir(<<"secret.txt">>)
    @@ "ignored_dir/secret.txt" :> File("secret")
    @@ ".hidden" :> Dir(<<"inner.txt">>)
    @@ ".hidden/inner.txt" :> File("")
    @@ "level1_dir" :> Dir(<<"level2_file.txt", "level2_dir">>)
    @@ "level1_dir/level2_file.txt" :> File("")
    @@ "level1_dir/level2_dir" :> Dir(<<"level3_file.txt">>)
    @@ "level1_dir/level2_dir/level3_file.txt" :> File("")
    @@ "src/node_modules" :> Dir(<<"pkg.js">>)
    @@ "src/node_modules/pkg.js" :> File("")

ScenarioB == {"visible_file.txt", "ignored_file.txt", "ignored_dir"}
ScenarioC == {"level1_file.txt", "level1_dir"}
GitignoreB == "ignored_file.txt\nignored_dir/"

\* The root entries of the generated projects: every choice of at most
\* MaxRootEntries of these, and the two scenarios.
FreeRootEntries == {"src", "ignored_dir", ".hidden", "level1_dir"}

RootSelections ==
    {S \in SUBSET FreeRootEntries : Cardinality(S) <= MaxRootEntries}
    \cup {ScenarioB, ScenarioC}

\* The states of <root>/.gitignore: missing, present but unreadable, or a text.
GitignoreChoices ==
    {None, "unreadable", GitignoreB,
     "# build output\r\n\r\n  src/build/**  \nlevel2_dir\nalpha.ts\n",
     "level1_dir/level2\n.hidden\n"}

InSeq(x, seq) == \E i \in 1..Len(seq) : seq[i] = x

MakeFs(sel, gi, unreadable) ==
    LET keys == {k \in DOMAIN Universe : Split(k, "/")[1] \in sel}
        rootNames == SelectSeq(UniverseRoot, LAMBDA n : n \in sel)
        rootEntries == IF gi = None THEN rootNames ELSE <<".gitignore">> \o rootNames
        giPath == ProjRoot \o "/.gitignore"
        base == ("/" :> Dir(<<"w">>))
             @@ ("/w" :> Dir(<<"notes.txt", "proj">>))
             @@ ("/w/notes.txt" :> File("hello"))
             @@ (ProjRoot :> Dir(rootEntries))
        gitig == IF gi = None THEN <<>>
                 ELSE IF gi = "unreadable"
                      THEN giPath :> [File("") EXCEPT !.readable = FALSE]
                      ELSE giPath :> File(gi)
        tree == [p \in {ProjRoot \o "/" \o k : k \in keys} |->
                    Universe[SubSeq(p, Len(ProjRoot) + 2, Len(p))]]
        all == base @@ gitig @@ tree
    IN  [p \in DOMAIN all |->
            IF p \in unreadable THEN [all[p] EXCEPT !.readable = FALSE] ELSE all[p]]

\* The directories that cannot be listed.
UnreadableChoices == {{}, {ProjRoot \o "/src"}, {ProjRoot \o "/level1_dir"}, {ProjRoot}}

FileSystems ==
    {MakeFs(sel, gi, u) :
        sel \in RootSelections, gi \in GitignoreChoices, u \in UnreadableChoices}

(***************************************************************************)
(* The fs module, on the file system fs.                                   *)
(***************************************************************************)
\* The entry a path names; the operating system resolves "." and ".." in it.
Lookup(p) == fs[PathResolve(p)]

ExistsSync(p) == PathResolve(p) \in DOMAIN fs

StatIsDirectory(p) == Lookup(p).kind = "dir"

\* readdirSync(p, {withFileTypes: true}): [ok, entries]; it throws on a
\* directory that cannot be listed.
Dirent(dir, name) ==
    [name |-> name, isDirectory |-> Lookup(PathJoin(dir, name)).kind = "dir"]

ReaddirSync(p) ==
    LET e == Lookup(p)
    IN  IF e.kind = "dir" /\ e.readable
        THEN [ok |-> TRUE,
              entries |-> [i \in 1..Len(e.entries) |-> Dirent(p, e.entries[i])]]
        ELSE [ok |-> FALSE, entries |-> <<>>]

\* readFileSync(p, 'utf8'): [ok, content]
ReadFileSync(p) ==
    LET e == Lookup(p)
    IN  IF e.kind = "file" /\ e.readable
        THEN [ok |-> TRUE, content |-> e.content]
        ELSE [ok |-> FALSE, content |-> ""]

FsOp(op, p) == [op |-> op, path |-> p]

(***************************************************************************)
(* createIgnoreInstance: the pattern list and the ignores predicate.       *)
(***************************************************************************)
defaultIgnores == <<".git", ".DS_Store", "node_modules">>

\* Mutant: the lines are not trimmed.
ParseGitignore_NoTrim(content) ==
    LET lines == Split(content, "\n")
    IN  SelectSeq(lines, LAMBDA line : line # "" /\ ~StartsWith(line, "#"))

ParseGitignore(content) ==
    LET lines == Split(content, "\n")
        trimmed == [i \in 1..Len(lines) |-> Trim(lines[i])]
    IN  SelectSeq(trimmed, LAMBDA line : line # "" /\ ~StartsWith(line, "#"))

\* The patterns read from <baseDir>/.gitignore, empty when it is missing or
\* reading it throws.
GitignorePatterns(baseDir) ==
    LET gitignorePath == PathJoin(baseDir, ".gitignore")
    IN  IF ExistsSync(gitignorePath) /\ ReadFileSync(gitignorePath).ok
        THEN ParseGitignore(ReadFileSync(gitignorePath).content)
        ELSE <<>>

IgnoreFsOps(baseDir) ==
    LET gitignorePath == PathJoin(baseDir, ".gitignore")
    IN  <<FsOp("existsSync", gitignorePath)>> \o
        (IF ExistsSync(gitignorePath) THEN <<FsOp("readFileSync", gitignorePath)>> ELSE <<>>)

\* Mutant: a pattern without '/' matches wherever it occurs in the path.
PatternMatches_Substring(pattern, normalizedPath) ==
    IF EndsWith(pattern, "/**")
    THEN LET dir == SubSeq(pattern, 1, Len(pattern) - 3)
         IN  StartsWith(normalizedPath, dir \o "/") \/ normalizedPath = dir
    ELSE Includes(normalizedPath, pattern)

PatternMatches(pattern, normalizedPath) ==
    IF EndsWith(pattern, "/**")
    THEN LET dir == SubSeq(pattern, 1, Len(pattern) - 3)
         IN  StartsWith(normalizedPath, dir \o "/") \/ normalizedPath = dir
    ELSE IF Includes(pattern, "/")
         THEN Includes(normalizedPath, pattern)
         ELSE InSeq(pattern, Split(normalizedPath, "/"))

Ignores(patterns, filePath) ==
    LET normalizedPath == ReplaceAll(filePath, "\\", "/")
    IN  \E i \in 1..Len(patterns) : PatternMatches(patterns[i], normalizedPath)

\* The ignores predicate on its own: an instance with some pattern list is
\* asked about some path.
IgnorePatterns == {"src/build/**", "build", "ignored_dir/", "dir/sub", ".git", "/**", "src"}

IgnorePatternLists == UNION {[1..n -> IgnorePatterns] : n \in 0..MaxPatterns}

IgnorePaths ==
    {"src", "src/build", "src/build/out.js", "src/builder", "src/rebuild.ts",
     "ignored_dir", "ignored_dir/secret.txt", "my/dir/sub/x", "lib/src/x",
     ".git/config", "/abs", "src\\build"}

IgnoresCall ==
    /\ ig.pc = "idle"
    /\ \E patterns \in IgnorePatternLists, filePath \in IgnorePaths :
          ig' = [pc |-> "done", patterns |-> patterns, filePath |-> filePath,
                 result |-> Ignores(patterns, filePath)]
    /\ UNCHANGED <<treeVars, firstResult, parse, tool, child, cwd>>

(***************************************************************************)
(* scanDirectory: the policies and the sort.                               *)
(***************************************************************************)
\* Mutant: the depth check lets the level equal to maxDepth through.
DepthReached_Strict(opts, currentLevel) ==
    IsSet(opts.maxDepth) /\ currentLevel > opts.maxDepth[1]

\* Mutant: the depth check stops one level early.
DepthReached_Early(opts, currentLevel) ==
    IsSet(opts.maxDepth) /\ currentLevel + 1 >= opts.maxDepth[1]

DepthReached(opts, currentLevel) ==
    IsSet(opts.maxDepth) /\ currentLevel >= opts.maxDepth[1]

\* Mutant: only an explicit showHidden = false hides entries.
SkipHidden_OnlyFalse(opts, name) == opts.showHidden = Some(FALSE) /\ StartsWith(name, ".")

SkipHidden(opts, name) == opts.showHidden # Some(TRUE) /\ StartsWith(name, ".")

\* Mutant: the ignore predicate is asked about the entry's name alone.
RelativePathOf_Name(opts, fullPath) == PathBasename(fullPath)

RelativePathOf(opts, fullPath) ==
    PathRelative(IF IsSet(opts.baseDirectory) /\ opts.baseDirectory[1] # ""
                 THEN opts.baseDirectory[1] ELSE ".", fullPath)

\* Mutant: no catch around the listing.
CatchesReadError_Rethrow == FALSE

\* Whether the catch of scanDirectory swallows what readdirSync throws.
CatchesReadError == TRUE

\* String.prototype.localeCompare under the root collation: punctuation
\* before digits before letters, letters first without regard to case, and
\* at equal letters lower case before upper case.
PrimaryOrder == "_-,;:!?.'()[]{}@*/\\&#%^+<=>|~$0123456789abcdefghijklmnopqrstuvwxyz"
UpperCase == "ABCDEFGHIJKLMNOPQRSTUVWXYZ"
LowerCase == "abcdefghijklmnopqrstuvwxyz"

IsUpper(c) == IndexOf(UpperCase, c) > 0

ToLower(c) == IF IsUpper(c) THEN CharAt(LowerCase, IndexOf(UpperCase, c)) ELSE c

PrimaryRank(c) == IndexOf(PrimaryOrder, ToLower(c))

RECURSIVE ComparePrimary(_, _)
ComparePrimary(a, b) ==
    IF Len(a) = 0 /\ Len(b) = 0 THEN 0
    ELSE IF Len(a) = 0 THEN -1
    ELSE IF Len(b) = 0 THEN 1
    ELSE LET ra == PrimaryRank(CharAt(a, 1))
             rb == PrimaryRank(CharAt(b, 1))
         IN  IF ra < rb THEN -1
             ELSE IF ra > rb THEN 1
             ELSE ComparePrimary(SubSeq(a, 2, Len(a)), SubSeq(b, 2, Len(b)))

RECURSIVE CompareCase(_, _)
CompareCase(a, b) ==
    IF Len(a) = 0 \/ Len(b) = 0 THEN 0
    ELSE IF CharAt(a, 1) = CharAt(b, 1)
         THEN CompareCase(SubSeq(a, 2, Len(a)), SubSeq(b, 2, Len(b)))
         ELSE IF IsUpper(CharAt(a, 1)) THEN 1 ELSE -1

LocaleCompare(a, b) ==
    IF ComparePrimary(a, b) # 0 THEN ComparePrimary(a, b) ELSE CompareCase(a, b)

\* Mutant: the comparator forgets the directories-first rule.
CompareNodes_NameOnly(a, b) == LocaleCompare(a.name, b.name)

CompareNodes(a, b) ==
    IF a.isDirectory /\ ~b.isDirectory THEN -1
    ELSE IF ~a.isDirectory /\ b.isDirectory THEN 1
    ELSE LocaleCompare(a.name, b.name)

\* Array.prototype.sort with CompareNodes: a stable sort.
RECURSIVE InsertNode(_, _)
InsertNode(sorted, n) ==
    IF Len(sorted) = 0 THEN <<n>>
    ELSE IF CompareNodes(n, Head(sorted)) < 0 THEN <<n>> \o sorted
    ELSE <<Head(sorted)>> \o InsertNode(Tail(sorted), n)

RECURSIVE SortNodes(_)
SortNodes(items) ==
    IF Len(items) = 0 THEN <<>>
    ELSE InsertNode(SortNodes(SubSeq(items, 1, Len(items) - 1)), items[Len(items)])

(***************************************************************************)
(* formatTree.  The module text is ASCII: "|" stands for U+2502, "+" for   *)
(* U+251C, "\" for U+2514 and "-" for U+2500, one character each.          *)
(***************************************************************************)
BranchLast == "\\-- "
BranchMid == "+-- "
IndentLast == "    "
IndentMid == "|   "

\* Mutant: the two indents are swapped.
RECURSIVE AncestorPrefix_Swapped(_)
AncestorPrefix_Swapped(isLast) ==
    IF Len(isLast) = 0 THEN ""
    ELSE (IF Head(isLast) THEN IndentMid ELSE IndentLast)
         \o AncestorPrefix_Swapped(Tail(isLast))

RECURSIVE AncestorPrefix(_)
AncestorPrefix(isLast) ==
    IF Len(isLast) = 0 THEN ""
    ELSE (IF Head(isLast) THEN IndentLast ELSE IndentMid) \o AncestorPrefix(Tail(isLast))

LinePrefix(isLast, isLastNode) ==
    AncestorPrefix(isLast) \o (IF isLastNode THEN BranchLast ELSE BranchMid)

HasChildren(node) == "children" \in DOMAIN node /\ Len(node.children) > 0

RECURSIVE FormatFrom(_, _, _)
FormatFrom(ns, isLast, i) ==
    IF i > Len(ns) THEN ""
    ELSE LET node == ns[i]
             isLastNode == (i = Len(ns))
         IN  LinePrefix(isLast, isLastNode) \o node.name \o "\n"
             \o (IF HasChildren(node)
                 THEN FormatFrom(node.children, Append(isLast, isLastNode), 1)
                 ELSE "")
             \o FormatFrom(ns, isLast, i + 1)

FormatTree(ns, isLast) == FormatFrom(ns, isLast, 1)

(***************************************************************************)
(* The inputs of the calls.                                                *)
(***************************************************************************)
TargetPaths == {".", "missing", "/w/proj/nope", "./../notes.txt"}

DepthChoices == {Unset} \cup {Some(d) : d \in -1..MaxDepthOpt}

HiddenChoices == {Unset, Some(FALSE), Some(TRUE)}

TreeArgChoices == {<<>>, <<"-L", "2">>}

BasePathChoices == {Undefined, "", "/w"}

FdTargetPaths == {".", "proj", "/w/proj/../proj", "../notes.txt"}

(***************************************************************************)
(* The state of the parts that have not been called.                       *)
(***************************************************************************)
IgIdle == [pc |-> "idle", patterns |-> <<>>, filePath |-> "", result |-> FALSE]

ParseIdle ==
    [pc |-> "idle", args |-> <<>>, i |-> 0, targetPath |-> None,
     options |-> [maxDepth |-> Unset, showHidden |-> FALSE, excludeGit |-> TRUE]]

ToolIdle ==
    [pc |-> "idle",
     params |-> [path |-> Unset, maxDepth |-> Unset, showHidden |-> Unset, args |-> Unset],
     reply |-> None]

ChildIdle ==
    [fdProcess |-> "none", treeProcess |-> "none", promise |-> "pending",
     fdOutput |-> "", fdErrorOutput |-> "", treeOutput |-> "", treeErrorOutput |-> "",
     fdErrored |-> FALSE, treeErrored |-> FALSE, stdin |-> <<>>, warnings |-> <<>>,
     fdCode |-> Unset, treeCode |-> Unset]

\* The object getCwdInfo returns, before any field is assigned.
NoReply == [absolute |-> Unset, relative |-> Unset, basePath |-> Unset]

CwdIdle ==
    [pc |-> "idle", method |-> None, env |-> Undefined, cwdFails |-> FALSE,
     basePath |-> Undefined, cwdCalls |-> 0, reply |-> NoReply, error |-> None,
     param |-> Undefined, text |-> None]

(***************************************************************************)
(* The in-process GtreeService.generateTree.                               *)
(***************************************************************************)
\* Nothing has been called yet.
NoCall ==
    /\ pc = "idle"
    /\ impl = None
    /\ targetPath = None
    /\ options = [maxDepth |-> Unset, showHidden |-> Unset, baseDirectory |-> Unset]
    /\ absolutePath = None
    /\ allIgnores = <<>>
    /\ stack = <<>>
    /\ nodes = <<>>
    /\ result = None
    /\ error = None
    /\ fsOps = <<>>
    /\ spawned = <<>>
    /\ basePath = None
    /\ treeArgs = <<>>
    /\ firstResult = None
    /\ ig = IgIdle
    /\ parse = ParseIdle
    /\ tool = ToolIdle
    /\ child = ChildIdle
    /\ cwd = CwdIdle

Init ==
    /\ fs \in FileSystems
    /\ NoCall

\* Mutant: the messages name the resolved path.
PreconditionError_Resolved(tp, abs) ==
    IF ~ExistsSync(abs) THEN "Path does not exist: " \o abs
    ELSE IF ~StatIsDirectory(abs) THEN "Path is not a directory: " \o abs
    ELSE None

\* Mutant: the directory check is missing.
PreconditionError_NoStat(tp, abs) ==
    IF ~ExistsSync(abs) THEN "Path does not exist: " \o tp ELSE None

\* The message of the Error the precondition checks throw, None when they pass.
PreconditionError(tp, abs) ==
    IF ~ExistsSync(abs) THEN "Path does not exist: " \o tp
    ELSE IF ~StatIsDirectory(abs) THEN "Path is not a directory: " \o tp
    ELSE None

PreconditionFsOps(abs) ==
    <<FsOp("existsSync", abs)>> \o
    (IF ExistsSync(abs) THEN <<FsOp("statSync", abs)>> ELSE <<>>)

\* generateTree up to the assignment of options.baseDirectory.
EnterGenerateTree(tp, opts) ==
    /\ LET abs == PathResolve(tp)
           err == PreconditionError(tp, abs)
       IN  /\ impl' = "inprocess"
           /\ targetPath' = tp
           /\ absolutePath' = abs
           /\ fsOps' = fsOps \o PreconditionFsOps(abs)
           /\ IF err # None
              THEN /\ pc' = "failed"
                   /\ error' = err
                   /\ options' = opts
              ELSE /\ pc' = "ignore"
                   /\ error' = error
                   /\ options' = [opts EXCEPT !.baseDirectory = Some(abs)]
    /\ UNCHANGED <<fs, allIgnores, stack, nodes, result, spawned, basePath, treeArgs>>

\* A call of generateTree by a caller that holds a target path and options.
GenerateTree(tp, opts) ==
    /\ pc = "idle"
    /\ EnterGenerateTree(tp, opts)
    /\ UNCHANGED auxVars

\* A second call after the first has returned, with the same target path
\* and with the options object the first call was given, as that call left
\* it.
GenerateTreeAgain ==
    /\ pc = "done"
    /\ impl = "inprocess"
    /\ firstResult = None
    /\ firstResult' = result
    /\ EnterGenerateTree(targetPath, options)
    /\ UNCHANGED <<ig, parse, tool, child, cwd>>

\* Mutant: the item list of scanDirectory is a static member that keeps
\* what the previous call returned.
Frame_Static(dirPath, level) ==
    [dirPath |-> dirPath, level |-> level, phase |-> "enter",
     entries |-> <<>>, items |-> nodes, pending |-> <<>>]

Frame(dirPath, level) ==
    [dirPath |-> dirPath, level |-> level, phase |-> "enter",
     entries |-> <<>>, items |-> <<>>, pending |-> <<>>]

\* createIgnoreInstance, and the outermost call of scanDirectory.
CreateIgnoreInstance ==
    /\ pc = "ignore"
    /\ allIgnores' = defaultIgnores \o GitignorePatterns(absolutePath)
    /\ fsOps' = fsOps \o IgnoreFsOps(absolutePath)
    /\ stack' = <<Frame(absolutePath, 0)>>
    /\ pc' = "scan"
    /\ UNCHANGED <<fs, impl, targetPath, options, absolutePath, nodes, result, error,
                   spawned, basePath, treeArgs>>
    /\ UNCHANGED auxVars

Top == stack[Len(stack)]

SetTop(f) == [stack EXCEPT ![Len(stack)] = f]

\* scanDirectory returns children to its caller: to generateTree from the
\* outermost call, otherwise into node.children of the caller's entry.
ReturnToCaller(children) ==
    IF Len(stack) = 1
    THEN /\ nodes' = children
         /\ stack' = <<>>
         /\ pc' = "format"
    ELSE LET parent == stack[Len(stack) - 1]
             node == parent.pending[1] @@ [children |-> children]
         IN  /\ stack' = [SubSeq(stack, 1, Len(stack) - 1) EXCEPT ![Len(stack) - 1] =
                            [parent EXCEPT !.items = Append(@, node),
                                           !.entries = Tail(@),
                                           !.pending = <<>>]]
             /\ UNCHANGED <<nodes, pc>>

\* Entry of scanDirectory: the depth check and readdirSync.
ScanEnter ==
    /\ pc = "scan"
    /\ Top.phase = "enter"
    /\ IF DepthReached(options, Top.level)
       THEN /\ ReturnToCaller(<<>>)
            /\ UNCHANGED <<fsOps, error>>
       ELSE LET r == ReaddirSync(Top.dirPath)
            IN  /\ fsOps' = Append(fsOps, FsOp("readdirSync", Top.dirPath))
                /\ IF r.ok \/ CatchesReadError
                   THEN /\ stack' = SetTop([Top EXCEPT !.phase = "loop", !.entries = r.entries])
                        /\ UNCHANGED <<nodes, pc, error>>
                   ELSE /\ pc' = "failed"
                        /\ error' = "EACCES: permission denied, scandir " \o Top.dirPath
                        /\ UNCHANGED <<nodes, stack>>
    /\ UNCHANGED <<fs, impl, targetPath, options, absolutePath, allIgnores, result,
                   spawned, basePath, treeArgs>>
    /\ UNCHANGED auxVars

\* One iteration of the loop over the directory's entries.
ScanEntry ==
    /\ pc = "scan"
    /\ Top.phase = "loop"
    /\ Len(Top.entries) > 0
    /\ LET entry == Head(Top.entries)
           fullPath == PathJoin(Top.dirPath, entry.name)
           relativePath == RelativePathOf(options, fullPath)
           node == [name |-> entry.name, path |-> relativePath,
                    isDirectory |-> entry.isDirectory, level |-> Top.level]
       IN  IF SkipHidden(options, entry.name) \/ Ignores(allIgnores, relativePath)
           THEN stack' = SetTop([Top EXCEPT !.entries = Tail(@)])
           ELSE IF entry.isDirectory
                THEN stack' = Append(SetTop([Top EXCEPT !.pending = <<node>>]),
                                     Frame(fullPath, Top.level + 1))
                ELSE stack' = SetTop([Top EXCEPT !.items = Append(@, node),
                                                 !.entries = Tail(@)])
    /\ UNCHANGED <<fs, pc, impl, targetPath, options, absolutePath, allIgnores, nodes,
                   result, error, fsOps, spawned, basePath, treeArgs>>
    /\ UNCHANGED auxVars

\* The end of scanDirectory: sort the items and return them.
ScanReturn ==
    /\ pc = "scan"
    /\ Top.phase = "loop"
    /\ Len(Top.entries) = 0
    /\ ReturnToCaller(SortNodes(Top.items))
    /\ UNCHANGED <<fs, impl, targetPath, options, absolutePath, allIgnores, result,
                   error, fsOps, spawned, basePath, treeArgs>>
    /\ UNCHANGED auxVars

\* Mutant: the text is trimmed before it is returned.
ResultText_Trimmed(abs, ns) ==
    TrimEnd(PathBasename(abs) \o "\n" \o
            (IF Len(ns) > 0 THEN FormatTree(ns, <<>>) ELSE ""))

\* The text generateTree builds: the root line and the formatted nodes.
ResultText(abs, ns) ==
    PathBasename(abs) \o "\n" \o
    (IF Len(ns) > 0 THEN FormatTree(ns, <<>>) ELSE "")

\* generateTree after the scan.
FormatResult ==
    /\ pc = "format"
    /\ result' = ResultText(absolutePath, nodes)
    /\ pc' = "done"
    /\ UNCHANGED <<fs, impl, targetPath, options, absolutePath, allIgnores, stack,
                   nodes, error, fsOps, spawned, basePath, treeArgs>>
    /\ UNCHANGED auxVars

(***************************************************************************)
(* The fd-based GtreeService.generateTree.                                 *)
(***************************************************************************)
\* Mutant: with a base path set, every target is resolved against it.
ResolveTargetPath_BaseFirst(tp, base) ==
    IF base = Undefined \/ base = "" THEN PathResolve(tp)
    ELSE PathResolve2(base, tp)

ResolveTargetPath(tp, base) ==
    IF base = Undefined \/ base = "" THEN PathResolve(tp)
    ELSE IF IsAbsolute(tp) THEN tp
    ELSE PathResolve2(base, tp)

fdArgs == <<".", "--type", "f", "--type", "d", "--hidden", "--exclude", ".git">>

FdGenerateTree(tp, args, base) ==
    /\ pc = "idle"
    /\ LET abs == ResolveTargetPath(tp, base)
           err == PreconditionError(tp, abs)
       IN  /\ impl' = "fd"
           /\ targetPath' = tp
           /\ treeArgs' = args
           /\ basePath' = base
           /\ absolutePath' = abs
           /\ fsOps' = fsOps \o PreconditionFsOps(abs)
           /\ IF err # None
              THEN /\ pc' = "failed"
                   /\ error' = err
                   /\ spawned' = spawned
                   /\ child' = child
              ELSE /\ pc' = "fd_running"
                   /\ error' = error
                   /\ spawned' = Append(spawned, [command |-> "fd", args |-> fdArgs, cwd |-> abs])
                   /\ child' = [ChildIdle EXCEPT !.fdProcess = "running"]
    /\ UNCHANGED <<fs, options, allIgnores, stack, nodes, result>>
    /\ UNCHANGED <<firstResult, ig, parse, tool, cwd>>

\* The events of the two child processes.  A stream emits at most MaxChunks
\* 'data' events, each with a chunk of three characters; a process emits
\* 'error' at most once, and 'close' once, after its streams have ended.
FdStdoutChunks == {"a/\n", "  \n"}
FdStderrChunks == {"er\n"}
TreeStdoutChunks == {" .\n"}
TreeStderrChunks == {"no\n"}
ExitCodes == {0, 1}
\* Mutant: every exit code is printed as 0.
CodeText_Zero == (0 :> "0") @@ (1 :> "0")
CodeText == (0 :> "0") @@ (1 :> "1")
SpawnErrors == {"spawn ENOENT"}

MayEmitData(buffer) == Len(buffer) < 3 * MaxChunks

baseTreeArgs == <<".", "--fromfile", "-F", "--dirsfirst", "-C">>

\* Mutant: the caller's arguments come first.
finalTreeArgs_CallerFirst(args) == args \o baseTreeArgs

finalTreeArgs(args) == baseTreeArgs \o args

\* Mutant: any fd output that is not the empty string is written.
StdinOps_NonEmpty(fdOutput) ==
    (IF fdOutput # "" THEN <<[op |-> "write", data |-> fdOutput]>> ELSE <<>>)
    \o <<[op |-> "end", data |-> ""]>>

\* What the close handler of fd does to tree's stdin: the write of fdOutput
\* when it is not blank, and the end.
StdinOps(fdOutput) ==
    (IF Trim(fdOutput) # "" THEN <<[op |-> "write", data |-> fdOutput]>> ELSE <<>>)
    \o <<[op |-> "end", data |-> ""]>>

\* resolvePromise and rejectPromise: the first call settles the promise.
Resolve(value) ==
    /\ result' = IF child.promise = "pending" THEN value ELSE result
    /\ error' = error

Reject(message) ==
    /\ error' = IF child.promise = "pending" THEN message ELSE error
    /\ result' = result

\* Mutant: every call of resolvePromise or rejectPromise sets the outcome.
Settled_Overwrite(c, outcome) ==
    [c EXCEPT !.promise = outcome]

Settled(c, outcome) ==
    [c EXCEPT !.promise = IF @ = "pending" THEN outcome ELSE @]

FdFrame ==
    UNCHANGED <<fs, pc, impl, targetPath, options, absolutePath, allIgnores, stack,
                nodes, fsOps, basePath, treeArgs, firstResult, ig, parse, tool, cwd>>

\* fdProcess.stdout.on('data')
FdStdoutData(chunk) ==
    /\ child.fdProcess = "running"
    /\ MayEmitData(child.fdOutput)
    /\ child' = [child EXCEPT !.fdOutput = @ \o chunk]
    /\ UNCHANGED <<result, error, spawned>>
    /\ FdFrame

\* fdProcess.stderr.on('data')
FdStderrData(chunk) ==
    /\ child.fdProcess = "running"
    /\ MayEmitData(child.fdErrorOutput)
    /\ child' = [child EXCEPT !.fdErrorOutput = @ \o chunk]
    /\ UNCHANGED <<result, error, spawned>>
    /\ FdFrame

\* fdProcess.on('error')
FdError(message) ==
    /\ child.fdProcess = "running"
    /\ ~child.fdErrored
    /\ child' = Settled([child EXCEPT !.fdErrored = TRUE], "rejected")
    /\ Reject("Failed to start fd process: " \o message)
    /\ UNCHANGED spawned
    /\ FdFrame

\* fdProcess.on('close'): the warnings, the exit code, the spawn of tree and
\* the write to its stdin.
FdClose(code) ==
    /\ child.fdProcess = "running"
    /\ LET trimmedFdError == Trim(child.fdErrorOutput)
           warned ==
               IF trimmedFdError # "" /\ code # 0
               THEN <<"fd command stderr (code " \o CodeText[code] \o "): "
                        \o trimmedFdError>>
               ELSE IF trimmedFdError # ""
               THEN <<"fd command stderr (non-fatal): " \o trimmedFdError>>
               ELSE <<>>
           closed == [child EXCEPT !.fdProcess = "closed", !.warnings = @ \o warned,
                                   !.fdCode = Some(code)]
       IN  IF code # 0
           THEN /\ child' = Settled(closed, "rejected")
                /\ Reject("fd command failed with code " \o CodeText[code] \o ": "
                          \o trimmedFdError)
                /\ spawned' = spawned
           ELSE /\ child' = [closed EXCEPT
                                !.treeProcess = "running",
                                !.stdin = StdinOps(child.fdOutput)]
                /\ spawned' = Append(spawned, [command |-> "tree",
                                                args |-> finalTreeArgs(treeArgs),
                                                cwd |-> absolutePath])
                /\ UNCHANGED <<result, error>>
    /\ FdFrame

\* treeProcess.stdout.on('data')
TreeStdoutData(chunk) ==
    /\ child.treeProcess = "running"
    /\ MayEmitData(child.treeOutput)
    /\ child' = [child EXCEPT !.treeOutput = @ \o chunk]
    /\ UNCHANGED <<result, error, spawned>>
    /\ FdFrame

\* treeProcess.stderr.on('data')
TreeStderrData(chunk) ==
    /\ child.treeProcess = "running"
    /\ MayEmitData(child.treeErrorOutput)
    /\ child' = [child EXCEPT !.treeErrorOutput = @ \o chunk]
    /\ UNCHANGED <<result, error, spawned>>
    /\ FdFrame

\* treeProcess.on('error')
TreeError(message) ==
    /\ child.treeProcess = "running"
    /\ ~child.treeErrored
    /\ child' = Settled([child EXCEPT !.treeErrored = TRUE], "rejected")
    /\ Reject("Failed to start tree process: " \o message)
    /\ UNCHANGED spawned
    /\ FdFrame

\* treeProcess.on('close')
TreeClose(code) ==
    /\ child.treeProcess = "running"
    /\ LET trimmedTreeError == Trim(child.treeErrorOutput)
           warned ==
               IF trimmedTreeError # ""
               THEN <<"tree command stderr (code " \o CodeText[code] \o "): "
                        \o trimmedTreeError>>
               ELSE <<>>
           closed == [child EXCEPT !.treeProcess = "closed", !.warnings = @ \o warned,
                                   !.treeCode = Some(code)]
       IN  IF code # 0
           THEN /\ child' = Settled(closed, "rejected")
                /\ Reject("tree command failed with code " \o CodeText[code] \o ": "
                          \o trimmedTreeError)
           ELSE /\ child' = Settled(closed, "resolved")
                /\ Resolve(Trim(child.treeOutput))
    /\ UNCHANGED spawned
    /\ FdFrame

FdFileSystems == {MakeFs({"src"}, None, {}), MakeFs({}, None, {})}

InitFd ==
    /\ fs \in FdFileSystems
    /\ NoCall

NextFd ==
    \/ \E tp \in FdTargetPaths, a \in TreeArgChoices, b \in BasePathChoices :
          FdGenerateTree(tp, a, b)
    \/ \E chunk \in FdStdoutChunks : FdStdoutData(chunk)
    \/ \E chunk \in FdStderrChunks : FdStderrData(chunk)
    \/ \E message \in SpawnErrors : FdError(message)
    \/ \E code \in ExitCodes : FdClose(code)
    \/ \E chunk \in TreeStdoutChunks : TreeStdoutData(chunk)
    \/ \E chunk \in TreeStderrChunks : TreeStderrData(chunk)
    \/ \E message \in SpawnErrors : TreeError(message)
    \/ \E code \in ExitCodes : TreeClose(code)

SpecFd == InitFd /\ [][NextFd]_vars

\* Every spawned process emits 'close' or 'error' in the end.
FdEnds == (\E message \in SpawnErrors : FdError(message)) \/ (\E code \in ExitCodes : FdClose(code))

TreeEnds ==
    (\E message \in SpawnErrors : TreeError(message)) \/ (\E code \in ExitCodes : TreeClose(code))

SpecFdLive == SpecFd /\ WF_vars(FdEnds) /\ WF_vars(TreeEnds)

Next ==
    \/ \E tp \in TargetPaths, d \in DepthChoices, h \in HiddenChoices :
          GenerateTree(tp, [maxDepth |-> d, showHidden |-> h, baseDirectory |-> Unset])
    \/ CreateIgnoreInstance
    \/ ScanEnter
    \/ ScanEntry
    \/ ScanReturn
    \/ FormatResult
    \/ \E tp \in FdTargetPaths, a \in TreeArgChoices, b \in BasePathChoices :
          FdGenerateTree(tp, a, b)

Spec == Init /\ [][Next]_vars

(***************************************************************************)
(* parseInt, for the radix-10 texts the argument lists hold: leading       *)
(* white space, an optional sign, and the longest run of digits; NaN when  *)
(* there is no digit.                                                      *)
(***************************************************************************)
NaN == <<>>
IsNaN(x) == Len(x) = 0

DigitValue ==
    ("0" :> 0) @@ ("1" :> 1) @@ ("2" :> 2) @@ ("3" :> 3) @@ ("4" :> 4) @@
    ("5" :> 5) @@ ("6" :> 6) @@ ("7" :> 7) @@ ("8" :> 8) @@ ("9" :> 9)

RECURSIVE DigitRun(_, _, _, _)
DigitRun(s, i, value, count) ==
    IF i <= Len(s) /\ CharAt(s, i) \in DOMAIN DigitValue
    THEN DigitRun(s, i + 1, 10 * value + DigitValue[CharAt(s, i)], count + 1)
    ELSE [value |-> value, count |-> count]

ParseInt(s) ==
    LET t == TrimStart(s)
        negative == StartsWith(t, "-")
        signed == negative \/ StartsWith(t, "+")
        r == DigitRun(IF signed THEN SubSeq(t, 2, Len(t)) ELSE t, 1, 0, 0)
    IN  IF r.count = 0 THEN NaN
        ELSE <<IF negative THEN 0 - r.value ELSE r.value>>

(***************************************************************************)
(* GtreeService.parseTreeArgs.  The loop index i counts from 1.            *)
(***************************************************************************)
\* Mutant: the number after -L is not skipped.
ParseIteration_NoSkip(a, st) ==
    LET arg == a[st.i]
        next == [st EXCEPT !.i = st.i + 1]
    IN  IF arg = "-L" /\ st.i < Len(a)
        THEN LET depth == ParseInt(a[st.i + 1])
             IN  IF ~IsNaN(depth)
                 THEN [next EXCEPT !.options.maxDepth = Some(depth[1])]
                 ELSE next
        ELSE IF arg = "-a" \/ arg = "--all"
        THEN [next EXCEPT !.options.showHidden = TRUE]
        ELSE IF StartsWith(arg, "-L")
        THEN LET depth == ParseInt(SubSeq(arg, 3, Len(arg)))
             IN  IF ~IsNaN(depth)
                 THEN [next EXCEPT !.options.maxDepth = Some(depth[1])]
                 ELSE next
        ELSE IF ~StartsWith(arg, "-")
        THEN [next EXCEPT !.targetPath = arg]
        ELSE next

\* Mutant: the token after -L is skipped whether or not it is a number.
ParseIteration_AlwaysSkip(a, st) ==
    LET arg == a[st.i]
        next == [st EXCEPT !.i = st.i + 1]
    IN  IF arg = "-L" /\ st.i < Len(a)
        THEN LET depth == ParseInt(a[st.i + 1])
             IN  IF ~IsNaN(depth)
                 THEN [next EXCEPT !.options.maxDepth = Some(depth[1]), !.i = st.i + 2]
                 ELSE [next EXCEPT !.i = st.i + 2]
        ELSE IF arg = "-a" \/ arg = "--all"
        THEN [next EXCEPT !.options.showHidden = TRUE]
        ELSE IF StartsWith(arg, "-L")
        THEN LET depth == ParseInt(SubSeq(arg, 3, Len(arg)))
             IN  IF ~IsNaN(depth)
                 THEN [next EXCEPT !.options.maxDepth = Some(depth[1])]
                 ELSE next
        ELSE IF ~StartsWith(arg, "-")
        THEN [next EXCEPT !.targetPath = arg]
        ELSE next

\* Mutant: the first path token is kept.
ParseIteration_FirstPath(a, st) ==
    LET arg == a[st.i]
        next == [st EXCEPT !.i = st.i + 1]
    IN  IF arg = "-L" /\ st.i < Len(a)
        THEN LET depth == ParseInt(a[st.i + 1])
             IN  IF ~IsNaN(depth)
                 THEN [next EXCEPT !.options.maxDepth = Some(depth[1]), !.i = st.i + 2]
                 ELSE next
        ELSE IF arg = "-a" \/ arg = "--all"
        THEN [next EXCEPT !.options.showHidden = TRUE]
        ELSE IF StartsWith(arg, "-L")
        THEN LET depth == ParseInt(SubSeq(arg, 3, Len(arg)))
             IN  IF ~IsNaN(depth)
                 THEN [next EXCEPT !.options.maxDepth = Some(depth[1])]
                 ELSE next
        ELSE IF ~StartsWith(arg, "-") /\ st.targetPath = "."
        THEN [next EXCEPT !.targetPath = arg]
        ELSE next

\* Mutant: a token that no rule knows is taken as the path.
ParseIteration_UnknownIsPath(a, st) ==
    LET arg == a[st.i]
        next == [st EXCEPT !.i = st.i + 1]
    IN  IF arg = "-L" /\ st.i < Len(a)
        THEN LET depth == ParseInt(a[st.i + 1])
             IN  IF ~IsNaN(depth)
                 THEN [next EXCEPT !.options.maxDepth = Some(depth[1]), !.i = st.i + 2]
                 ELSE next
        ELSE IF arg = "-a" \/ arg = "--all"
        THEN [next EXCEPT !.options.showHidden = TRUE]
        ELSE IF StartsWith(arg, "-L")
        THEN LET depth == ParseInt(SubSeq(arg, 3, Len(arg)))
             IN  IF ~IsNaN(depth)
                 THEN [next EXCEPT !.options.maxDepth = Some(depth[1])]
                 ELSE next
        ELSE [next EXCEPT !.targetPath = arg]

\* The body of the loop for the token at st.i, and the loop's increment.
ParseIteration(a, st) ==
    LET arg == a[st.i]
        next == [st EXCEPT !.i = st.i + 1]
    IN  IF arg = "-L" /\ st.i < Len(a)
        THEN LET depth == ParseInt(a[st.i + 1])
             IN  IF ~IsNaN(depth)
                 THEN [next EXCEPT !.options.maxDepth = Some(depth[1]), !.i = st.i + 2]
                 ELSE next
        ELSE IF arg = "-a" \/ arg = "--all"
        THEN [next EXCEPT !.options.showHidden = TRUE]
        ELSE IF StartsWith(arg, "-L")
        THEN LET depth == ParseInt(SubSeq(arg, 3, Len(arg)))
             IN  IF ~IsNaN(depth)
                 THEN [next EXCEPT !.options.maxDepth = Some(depth[1])]
                 ELSE next
        ELSE IF ~StartsWith(arg, "-")
        THEN [next EXCEPT !.targetPath = arg]
        ELSE next

\* The locals of parseTreeArgs before the loop.
ParseStart(a) ==
    [pc |-> "loop", args |-> a, i |-> 1, targetPath |-> ".",
     options |-> [maxDepth |-> Unset, showHidden |-> FALSE, excludeGit |-> TRUE]]

RECURSIVE ParseLoop(_, _)
ParseLoop(a, st) ==
    IF st.i > Len(a) THEN st ELSE ParseLoop(a, ParseIteration(a, st))

\* parseTreeArgs as a function: what it returns for an argument list.
ParseTreeArgs(a) ==
    LET st == ParseLoop(a, ParseStart(a))
    IN  [path |-> st.targetPath, options |-> st.options]

ArgTokens == {"-L", "2", "-L3", "-a", "--all", "--noreport", "src", "-Lx", "2x", "-1"}

ArgLists == UNION {[1..n -> ArgTokens] : n \in 0..MaxArgs}

\* The call of parseTreeArgs with some argument list, up to the loop.
ParseTreeArgsCall ==
    /\ parse.pc = "idle"
    /\ \E a \in ArgLists : parse' = ParseStart(a)
    /\ UNCHANGED <<treeVars, firstResult, ig, tool, child, cwd>>

\* One iteration of the loop.
ParseStep ==
    /\ parse.pc = "loop"
    /\ parse.i <= Len(parse.args)
    /\ parse' = ParseIteration(parse.args, parse)
    /\ UNCHANGED <<treeVars, firstResult, ig, tool, child, cwd>>

\* The loop has ended: parseTreeArgs returns.
ParseReturn ==
    /\ parse.pc = "loop"
    /\ parse.i > Len(parse.args)
    /\ parse' = [parse EXCEPT !.pc = "done"]
    /\ UNCHANGED <<treeVars, firstResult, ig, tool, child, cwd>>

InitArgs ==
    /\ fs = MakeFs({}, None, {})
    /\ NoCall

NextArgs ==
    \/ ParseTreeArgsCall
    \/ ParseStep
    \/ ParseReturn

SpecArgs == InitArgs /\ [][NextArgs]_vars

(***************************************************************************)
(* The handler of the gtree tool.  excludeGit is set by the handler and by *)
(* parseTreeArgs and read by nothing; the options handed to generateTree   *)
(* are modelled by the fields the scan reads.                              *)
(***************************************************************************)
\* params.path || '.', replaced by the parsed path when that is not '.'.
ToolTargetPath(p) ==
    LET fromParams == IF IsSet(p.path) /\ p.path[1] # "" THEN p.path[1] ELSE "."
    IN  IF IsSet(p.args) /\ Len(p.args[1]) > 0
             /\ ParseTreeArgs(p.args[1]).path # "."
        THEN ParseTreeArgs(p.args[1]).path
        ELSE fromParams

\* { maxDepth: params.maxDepth, showHidden: params.showHidden || false },
\* and with args given { ...options, ...parsed.options }: parsed.options
\* always has showHidden, and has maxDepth when a depth flag set it.
ToolOptions(p) ==
    LET fromParams ==
            [maxDepth |-> p.maxDepth,
             showHidden |-> Some(IsSet(p.showHidden) /\ p.showHidden[1]),
             baseDirectory |-> Unset]
    IN  IF IsSet(p.args) /\ Len(p.args[1]) > 0
        THEN LET parsed == ParseTreeArgs(p.args[1]).options
             IN  [fromParams EXCEPT
                     !.showHidden = Some(parsed.showHidden),
                     !.maxDepth = IF IsSet(parsed.maxDepth) THEN parsed.maxDepth ELSE @]
        ELSE fromParams

ToolPaths == {Unset, Some("."), Some("missing")}
ToolDepths == {Unset, Some(1)}
ToolArgs == {Unset, Some(<<>>), Some(<<"-L", "2">>), Some(<<"-a">>), Some(<<"-L0", "src">>),
             Some(<<"-L", "x">>), Some(<<"-L", "-1">>)}

\* execute, up to the call of generateTree and into it.
ToolExecute(p) ==
    /\ tool.pc = "idle"
    /\ pc = "idle"
    /\ tool' = [tool EXCEPT !.pc = "running", !.params = p]
    /\ EnterGenerateTree(ToolTargetPath(p), ToolOptions(p))
    /\ UNCHANGED <<firstResult, ig, parse, child, cwd>>

\* execute after generateTree: its text, or the message of what it threw.
ToolReply ==
    /\ tool.pc = "running"
    /\ pc \in {"done", "failed"}
    /\ tool' = [tool EXCEPT !.pc = "replied",
                            !.reply = IF pc = "done" THEN result ELSE "Error: " \o error]
    /\ UNCHANGED <<treeVars, firstResult, ig, parse, child, cwd>>

ToolFileSystems ==
    {MakeFs({"src"}, None, {}), MakeFs({".hidden", "level1_dir"}, GitignoreB, {})}

InitTool ==
    /\ fs \in ToolFileSystems
    /\ NoCall

NextTool ==
    \/ \E path \in ToolPaths, d \in ToolDepths, h \in HiddenChoices, a \in ToolArgs :
          ToolExecute([path |-> path, maxDepth |-> d, showHidden |-> h, args |-> a])
    \/ CreateIgnoreInstance
    \/ ScanEnter
    \/ ScanEntry
    \/ ScanReturn
    \/ FormatResult
    \/ ToolReply

SpecTool == InitTool /\ [][NextTool]_vars

(***************************************************************************)
(* CwdService.  process.cwd() either returns Cwd or throws; path.resolve   *)
(* calls it when its argument is not absolute.  An outcome is the value    *)
(* returned or the message thrown, with the number of process.cwd() calls. *)
(***************************************************************************)
CwdErrorMessage == "ENOENT: no such file or directory, uv_cwd"

Returns(value, calls) == [ok |-> TRUE, value |-> value, message |-> None, calls |-> calls]
Throws(message, calls) == [ok |-> FALSE, value |-> None, message |-> message, calls |-> calls]

\* process.cwd()
ProcessCwd(fails) ==
    IF fails THEN Throws(CwdErrorMessage, 1) ELSE Returns(Cwd, 1)

\* path.resolve(p)
ResolveOrThrow(p, fails) ==
    IF IsAbsolute(p) THEN Returns(PathResolve(p), 0)
    ELSE IF fails THEN Throws(CwdErrorMessage, 1)
    ELSE Returns(PathResolve2(Cwd, p), 1)

Truthy(s) == s # Undefined /\ s # ""

\* Mutant: process.cwd() is called before the environment is looked at.
CurrentWorkingDirectory_CwdFirst(env, fails) ==
    LET c == ProcessCwd(fails)
    IN  IF ~c.ok THEN c
        ELSE LET r == ResolveOrThrow(IF Truthy(env) THEN env ELSE c.value, fails)
             IN  [r EXCEPT !.calls = @ + c.calls]

\* The try block of getCurrentWorkingDirectory.
CurrentWorkingDirectory(env, fails) ==
    IF Truthy(env) THEN ResolveOrThrow(env, fails)
    ELSE LET c == ProcessCwd(fails)
         IN  IF ~c.ok THEN c
             ELSE LET r == ResolveOrThrow(c.value, fails)
                  IN  [r EXCEPT !.calls = @ + c.calls]

\* Mutant: the basePath argument is used whenever it is not empty.
CwdInfo_NoTrim(env, fails, bp) ==
    LET c == IF Truthy(env) THEN Returns(env, 0) ELSE ProcessCwd(fails)
    IN  IF ~c.ok THEN c
        ELSE LET a == ResolveOrThrow(c.value, fails)
             IN  IF ~a.ok THEN [a EXCEPT !.calls = @ + c.calls]
                 ELSE IF Truthy(bp)
                 THEN LET b == ResolveOrThrow(bp, fails)
                          calls == c.calls + a.calls + b.calls
                      IN  IF ~b.ok THEN [b EXCEPT !.calls = calls]
                          ELSE Returns([absolute |-> Some(a.value),
                                        basePath |-> Some(b.value),
                                        relative |-> Some(PathRelative(b.value, a.value))],
                                       calls)
                 ELSE Returns([NoReply EXCEPT !.absolute = Some(a.value)],
                              c.calls + a.calls)

\* The try block of getCwdInfo.
CwdInfo(env, fails, bp) ==
    LET c == IF Truthy(env) THEN Returns(env, 0) ELSE ProcessCwd(fails)
    IN  IF ~c.ok THEN c
        ELSE LET a == ResolveOrThrow(c.value, fails)
             IN  IF ~a.ok THEN [a EXCEPT !.calls = @ + c.calls]
                 ELSE IF Truthy(bp) /\ Trim(bp) # ""
                 THEN LET b == ResolveOrThrow(bp, fails)
                          calls == c.calls + a.calls + b.calls
                      IN  IF ~b.ok THEN [b EXCEPT !.calls = calls]
                          ELSE Returns([absolute |-> Some(a.value),
                                        basePath |-> Some(b.value),
                                        relative |-> Some(PathRelative(b.value, a.value))],
                                       calls)
                 ELSE Returns([NoReply EXCEPT !.absolute = Some(a.value)],
                              c.calls + a.calls)

CwdEnvChoices == {Undefined, "", "/srv/base", "/w/proj/../other", "sub", "  ", "/w/proj"}

CwdBasePathChoices ==
    {Undefined, "", "   ", "\t ", "/w", "/w/proj/src/lib", "/srv", "docs", ".."}

\* CwdService.getCurrentWorkingDirectory()
GetCurrentWorkingDirectory(env, fails) ==
    /\ cwd.pc = "idle"
    /\ LET r == CurrentWorkingDirectory(env, fails)
       IN  cwd' = [pc |-> "done", method |-> "getCurrentWorkingDirectory",
                   env |-> env, cwdFails |-> fails, basePath |-> Undefined,
                   cwdCalls |-> r.calls,
                   reply |-> IF r.ok THEN [NoReply EXCEPT !.absolute = Some(r.value)]
                             ELSE NoReply,
                   error |-> IF r.ok THEN None
                             ELSE "Failed to get current working directory: " \o r.message,
                   param |-> Undefined, text |-> None]
    /\ UNCHANGED <<treeVars, firstResult, ig, parse, tool, child>>

\* CwdService.getCwdInfo(basePath)
GetCwdInfo(env, fails, bp) ==
    /\ cwd.pc = "idle"
    /\ LET r == CwdInfo(env, fails, bp)
       IN  cwd' = [pc |-> "done", method |-> "getCwdInfo",
                   env |-> env, cwdFails |-> fails, basePath |-> bp,
                   cwdCalls |-> r.calls,
                   reply |-> IF r.ok THEN r.value ELSE NoReply,
                   error |-> IF r.ok THEN None
                             ELSE "Failed to get current working directory info: "
                                  \o r.message,
                   param |-> Undefined, text |-> None]
    /\ UNCHANGED <<treeVars, firstResult, ig, parse, tool, child>>

\* A field of an object in a template literal.
Interpolated(field) == IF IsSet(field) THEN field[1] ELSE "undefined"

\* The text the cwd tool builds from what getCwdInfo returned.
CwdInfoText(info) ==
    "Current working directory:\nAbsolute path: " \o Interpolated(info.absolute)
    \o "\nBase path: " \o Interpolated(info.basePath)
    \o "\nRelative path: "
    \o (IF IsSet(info.relative) /\ info.relative[1] # ""
        THEN info.relative[1] ELSE "(same as base)")

\* execute of the cwd tool: getCwdInfo when the basePath parameter is truthy,
\* getCurrentWorkingDirectory otherwise, and the message of what they threw.
CwdToolExecute(env, fails, bp) ==
    /\ cwd.pc = "idle"
    /\ IF Truthy(bp)
       THEN LET r == CwdInfo(env, fails, bp)
                thrown == "Failed to get current working directory info: " \o r.message
            IN  cwd' = [pc |-> "done", method |-> "getCwdInfo",
                        env |-> env, cwdFails |-> fails, basePath |-> bp,
                        cwdCalls |-> r.calls,
                        reply |-> IF r.ok THEN r.value ELSE NoReply,
                        error |-> IF r.ok THEN None ELSE thrown,
                        param |-> bp,
                        text |-> IF r.ok THEN CwdInfoText(r.value)
                                 ELSE "Error: " \o thrown]
       ELSE LET r == CurrentWorkingDirectory(env, fails)
                thrown == "Failed to get current working directory: " \o r.message
            IN  cwd' = [pc |-> "done", method |-> "getCurrentWorkingDirectory",
                        env |-> env, cwdFails |-> fails, basePath |-> Undefined,
                        cwdCalls |-> r.calls,
                        reply |-> IF r.ok THEN [NoReply EXCEPT !.absolute = Some(r.value)]
                                  ELSE NoReply,
                        error |-> IF r.ok THEN None ELSE thrown,
                        param |-> bp,
                        text |-> IF r.ok THEN "Current working directory: " \o r.value
                                 ELSE "Error: " \o thrown]
    /\ UNCHANGED <<treeVars, firstResult, ig, parse, tool, child>>

InitCwd ==
    /\ fs = MakeFs({}, None, {})
    /\ NoCall

NextCwd ==
    \/ \E env \in CwdEnvChoices, fails \in BOOLEAN : GetCurrentWorkingDirectory(env, fails)
    \/ \E env \in CwdEnvChoices, fails \in BOOLEAN, bp \in CwdBasePathChoices :
          GetCwdInfo(env, fails, bp)
    \/ \E env \in CwdEnvChoices, fails \in BOOLEAN, bp \in CwdBasePathChoices :
          CwdToolExecute(env, fails, bp)

SpecCwd == InitCwd /\ [][NextCwd]_vars

(***************************************************************************)
(* The ignores predicate asked with the pattern lists and paths above.     *)
(***************************************************************************)
InitIgnore ==
    /\ fs = MakeFs({}, None, {})
    /\ NoCall

NextIgnore == IgnoresCall

SpecIgnore == InitIgnore /\ [][NextIgnore]_vars

(***************************************************************************)
(* Two calls in a row on an unchanged file system.                         *)
(***************************************************************************)
RepeatFileSystems ==
    {MakeFs(sel, gi, {}) :
        sel \in {{}, ScenarioB, {"src", "level1_dir"}},
        gi \in {None, GitignoreB, "level1_dir/level2\n.hidden\n"}}
    \cup {MakeFs({"src", "level1_dir"}, None, {ProjRoot \o "/src"})}

InitRepeat ==
    /\ fs \in RepeatFileSystems
    /\ NoCall

NextRepeat ==
    \/ \E tp \in TargetPaths, d \in DepthChoices, h \in HiddenChoices :
          GenerateTree(tp, [maxDepth |-> d, showHidden |-> h, baseDirectory |-> Unset])
    \/ CreateIgnoreInstance
    \/ ScanEnter
    \/ ScanEntry
    \/ ScanReturn
    \/ FormatResult
    \/ GenerateTreeAgain

SpecRepeat == InitRepeat /\ [][NextRepeat]_vars

(***************************************************************************)
(* What the properties speak about: the entries of the returned tree, the  *)
(* entries of the file system under the scanned root, the lines of the     *)
(* returned text.                                                          *)
(***************************************************************************)
Returned == impl = "inprocess" /\ pc = "done"

\* Every node of a tree with the path its position gives it: the names from
\* the root's child down to the node, joined by "/".
RECURSIVE TreeEntries(_, _)
TreeEntries(ns, parentPath) ==
    UNION {LET n == ns[i]
               p == IF parentPath = "" THEN n.name ELSE parentPath \o "/" \o n.name
           IN  {[path |-> p, node |-> n]} \cup
               (IF "children" \in DOMAIN n THEN TreeEntries(n.children, p) ELSE {})
           : i \in 1..Len(ns)}

OutputEntries == TreeEntries(nodes, "")

OutputPaths == {e.path : e \in OutputEntries}

\* The paths, relative to the scanned root, of everything below it.
FsPaths ==
    {SubSeq(p, Len(absolutePath) + 2, Len(p)) :
        p \in {q \in DOMAIN fs : StartsWith(q, absolutePath \o "/")}}

IsUnder(q, p) == q = p \/ StartsWith(q, p \o "/")

LevelOf(relPath) == Len(Split(relPath, "/")) - 1

\* The prefixes of a relative path that end at a segment boundary.
PathPrefixes(relPath) ==
    LET segs == Split(relPath, "/")
    IN  {JoinWith(SubSeq(segs, 1, k), "/") : k \in 1..Len(segs)}

ParentDir(relPath) ==
    LET segs == Split(relPath, "/")
    IN  IF Len(segs) = 1 THEN absolutePath
        ELSE absolutePath \o "/" \o JoinWith(SubSeq(segs, 1, Len(segs) - 1), "/")

HiddenName(relPath) == \E q \in PathPrefixes(relPath) : StartsWith(PathBasename(q), ".")

\* The lines of a text whose every line ends in a newline.
Lines(text) == LET parts == Split(text, "\n") IN SubSeq(parts, 1, Len(parts) - 1)

\* C1: the returned tree holds no entry whose relative path matches a
\* pattern of the ignore set, and nothing below such an entry.
C1_IgnoredAbsent ==
    Returned =>
        \A p \in FsPaths :
            Ignores(allIgnores, p) => \A q \in OutputPaths : ~IsUnder(q, p)

\* A pattern that came from .gitignore removed a directory that had content,
\* while the directory next to which it stands was kept.
C1_Witness ==
    /\ Returned
    /\ "src/build/**" \in {allIgnores[i] : i \in 1..Len(allIgnores)}
    /\ "src/build/out.js" \in FsPaths
    /\ "src" \in OutputPaths
    /\ "src/build" \notin OutputPaths

\* C2: scenario B, and the rule it is an instance of: a .gitignore line that
\* names a directory with a trailing slash removes the directory and all
\* that is in it.
C2_TrailingSlashRemovesDirectory ==
    Returned =>
        /\ (/\ ScenarioB \subseteq FsPaths
            /\ allIgnores = defaultIgnores \o <<"ignored_file.txt", "ignored_dir/">>
            /\ options.maxDepth = Unset
            /\ Lookup(absolutePath).readable)
           => /\ "visible_file.txt" \in OutputPaths
              /\ \A q \in OutputPaths :
                    ~IsUnder(q, "ignored_file.txt") /\ ~IsUnder(q, "ignored_dir")
        /\ \A i \in 1..Len(allIgnores) : \A p \in FsPaths :
              (/\ Lookup(absolutePath \o "/" \o p).kind = "dir"
               /\ allIgnores[i] = PathBasename(p) \o "/")
              => \A q \in OutputPaths : ~IsUnder(q, p)

\* C3: with maxDepth set, every node has level <= maxDepth and its level is
\* its depth below the root, a node whose level equals maxDepth has no child,
\* a directory node one level above the limit got the empty sequence, and no
\* directory at or below the limit was listed.
C3_DepthLimit ==
    (Returned /\ IsSet(options.maxDepth)) =>
        /\ \A e \in OutputEntries :
              /\ e.node.level = LevelOf(e.path)
              /\ e.node.level <= options.maxDepth[1]
              /\ (e.node.level = options.maxDepth[1] /\ "children" \in DOMAIN e.node)
                    => e.node.children = <<>>
              /\ (e.node.isDirectory /\ e.node.level + 1 >= options.maxDepth[1])
                    => e.node.children = <<>>
        /\ \A i \in 1..Len(fsOps) :
              fsOps[i].op = "readdirSync"
              => Len(SegmentsOf(fsOps[i].path)) - Len(SegmentsOf(absolutePath))
                    < options.maxDepth[1]

\* A directory that holds entries stands in the tree at the last level the
\* limit allows, and its entries were not listed.
C3_Witness ==
    /\ Returned
    /\ options.maxDepth = Some(1)
    /\ \E e \in OutputEntries :
          /\ e.path = "level1_dir"
          /\ e.node.children = <<>>
          /\ Lookup(absolutePath \o "/" \o e.path).readable
          /\ "level1_dir/level2_file.txt" \in FsPaths
          /\ ~Ignores(allIgnores, "level1_dir/level2_file.txt")

\* C4: scenario C.  With maxDepth = 2 the scan of the three-level project
\* returns level1_file.txt, level1_dir, level2_file.txt and level2_dir, the
\* text names them, and level3_file.txt is in neither.
ScenarioCFs == MakeFs(ScenarioC, None, {})

C4_ScenarioC ==
    (Returned /\ fs = ScenarioCFs /\ absolutePath = ProjRoot /\ options.maxDepth = Some(2)) =>
        /\ OutputPaths = {"level1_file.txt", "level1_dir", "level1_dir/level2_file.txt",
                          "level1_dir/level2_dir"}
        /\ \A n \in {"level1_file.txt", "level1_dir", "level2_file.txt", "level2_dir"} :
              Includes(result, n)
        /\ ~Includes(result, "level3_file.txt")
        /\ \E e \in OutputEntries : e.path = "level1_dir/level2_dir" /\ e.node.children = <<>>

C4_Witness ==
    /\ Returned
    /\ fs = ScenarioCFs
    /\ absolutePath = ProjRoot
    /\ options.maxDepth = Some(2)
    /\ Lines(result) = <<"proj", "+-- level1_dir", "|   +-- level2_dir",
                         "|   \\-- level2_file.txt", "\\-- level1_file.txt">>

\* The entries of the file system that a scan keeps: no name on the way to
\* them is hidden (unless showHidden), no pattern matches them, they lie
\* above the depth limit, and every directory on the way was listed.
Kept(p) ==
    /\ options.showHidden = Some(TRUE) \/ ~HiddenName(p)
    /\ \A q \in PathPrefixes(p) : ~Ignores(allIgnores, q)
    /\ IsSet(options.maxDepth) => LevelOf(p) < options.maxDepth[1]
    /\ \A q \in PathPrefixes(p) : LET d == Lookup(ParentDir(q))
                                  IN  d.kind = "dir" /\ d.readable

AllListable == \A p \in DOMAIN fs : fs[p].readable

\* C5 as stated: without showHidden no dot-entry and nothing below one; with
\* showHidden every dot-entry that no pattern matches.  Stated for the calls
\* on a file system whose directories can all be listed, with maxDepth unset
\* or at least 1.
C5_HiddenAsStated ==
    (Returned /\ AllListable /\ (IsSet(options.maxDepth) => options.maxDepth[1] >= 1)) =>
        /\ options.showHidden # Some(TRUE) => \A q \in OutputPaths : ~HiddenName(q)
        /\ options.showHidden = Some(TRUE) =>
              \A p \in FsPaths :
                 (StartsWith(PathBasename(p), ".") /\ ~Ignores(allIgnores, p))
                 => p \in OutputPaths

\* C5, amended: without showHidden no dot-entry and nothing below one; with
\* showHidden a dot-entry is in the tree exactly when no pattern matches it,
\* it lies above the depth limit and every directory above it was listed.
C5_Hidden ==
    Returned =>
        /\ options.showHidden # Some(TRUE) => \A q \in OutputPaths : ~HiddenName(q)
        /\ options.showHidden = Some(TRUE) =>
              \A p \in FsPaths :
                 StartsWith(PathBasename(p), ".") => (p \in OutputPaths <=> Kept(p))

\* With showHidden a dot-directory and its content are in the tree, and a
\* dot-entry that a default pattern matches is not.
C5_Witness ==
    /\ Returned
    /\ options.showHidden = Some(TRUE)
    /\ {".hidden", ".hidden/inner.txt", "src/.env"} \subseteq OutputPaths
    /\ "src/.git" \in FsPaths
    /\ "src/.git" \notin OutputPaths

\* The sibling lists of a tree.
RECURSIVE SiblingLists(_)
SiblingLists(ns) ==
    {ns} \cup UNION {IF "children" \in DOMAIN ns[i] THEN SiblingLists(ns[i].children) ELSE {}
                     : i \in 1..Len(ns)}

\* The names of a tree's nodes, each node followed by its children.
RECURSIVE PreorderNames(_)
PreorderNames(ns) ==
    IF Len(ns) = 0 THEN <<>>
    ELSE <<ns[1].name>>
         \o (IF "children" \in DOMAIN ns[1] THEN PreorderNames(ns[1].children) ELSE <<>>)
         \o PreorderNames(Tail(ns))

\* The name a line of the text ends with: what follows the last blank.
RECURSIVE NameOfLine(_)
NameOfLine(line) ==
    LET i == IndexOf(line, " ")
    IN  IF i = 0 THEN line ELSE NameOfLine(SubSeq(line, i + 1, Len(line)))

\* C6: in every sibling list the directories come before the files, within
\* each kind the names ascend under the locale comparison, and the text
\* names the nodes in that order.
C6_Sorted ==
    /\ Returned =>
          \A l \in SiblingLists(nodes) : \A i, j \in 1..Len(l) :
             i < j => /\ ~(~l[i].isDirectory /\ l[j].isDirectory)
                      /\ l[i].isDirectory = l[j].isDirectory
                            => LocaleCompare(l[i].name, l[j].name) <= 0
    /\ Returned =>
          [k \in 1..(Len(Lines(result)) - 1) |-> NameOfLine(Lines(result)[k + 1])]
             = PreorderNames(nodes)

\* A listing that readdirSync gave in another order: the directory first,
\* then the files, alpha.ts before Beta.ts.
C6_Witness ==
    /\ Returned
    /\ \E e \in OutputEntries :
          /\ e.path = "src"
          /\ [i \in 1..Len(e.node.children) |-> e.node.children[i].name]
                = <<"build", "alpha.ts", "Beta.ts">>
          /\ Lookup(absolutePath \o "/src").entries
                = <<"Beta.ts", ".git", "alpha.ts", "node_modules", "build", ".env",
                    ".gitignore">>

\* What the in-process targets name on every file system of the model.
TargetKind(tp) ==
    CASE tp = "." -> "dir"
      [] tp \in {"missing", "/w/proj/nope"} -> "missing"
      [] tp = "./../notes.txt" -> "file"

ExistsOp == FsOp("existsSync", absolutePath)
StatOp == FsOp("statSync", absolutePath)

\* C7: a call fails exactly when its resolved target is missing or is not a
\* directory, with the message naming the path as passed; existsSync is
\* asked first and statSync only of a path that exists.
C7_PreconditionErrors ==
    /\ pc = "failed" =>
          \/ /\ error = "Path does not exist: " \o targetPath
             /\ ~ExistsSync(absolutePath)
             /\ fsOps = <<ExistsOp>>
          \/ /\ error = "Path is not a directory: " \o targetPath
             /\ ExistsSync(absolutePath)
             /\ ~StatIsDirectory(absolutePath)
             /\ fsOps = <<ExistsOp, StatOp>>
    /\ (pc # "idle" /\ (~ExistsSync(absolutePath) \/ ~StatIsDirectory(absolutePath)))
          => pc = "failed"
    /\ impl = "inprocess" =>
          /\ TargetKind(targetPath) = "dir" => pc # "failed"
          /\ TargetKind(targetPath) = "missing"
                => pc = "failed" /\ error = "Path does not exist: " \o targetPath
          /\ TargetKind(targetPath) = "file"
                => pc = "failed" /\ error = "Path is not a directory: " \o targetPath

\* The call failed on a file, and the message shows the path as the caller
\* wrote it, which is not the resolved path.
C7_Witness ==
    /\ impl = "inprocess"
    /\ pc = "failed"
    /\ absolutePath = "/w/notes.txt"
    /\ error = "Path is not a directory: ./../notes.txt"

TraversalFree ==
    /\ \A i \in 1..Len(fsOps) :
          fsOps[i].op \in {"existsSync", "statSync"} /\ fsOps[i].path = absolutePath
    /\ spawned = <<>>
    /\ result = None
    /\ nodes = <<>>
    /\ stack = <<>>
    /\ allIgnores = <<>>

InvalidTarget ==
    pc # "idle" /\ (~ExistsSync(absolutePath) \/ ~StatIsDirectory(absolutePath))

\* C8: a call on a missing path or on a non-directory fails, and a failed
\* call has read no .gitignore, listed no directory, spawned no process and
\* returned no text; a call fails only as its first step, never after the
\* traversal has begun.
C8_FailsBeforeTraversal ==
    /\ [](InvalidTarget => pc = "failed")
    /\ [](pc = "failed" => TraversalFree)
    /\ [][pc' = "failed" => pc = "idle"]_vars

\* The fd-based call failed on a file inside a project that has entries to
\* list, and nothing was spawned.
C8_Witness ==
    /\ impl = "fd"
    /\ pc = "failed"
    /\ error = "Path is not a directory: ../notes.txt"
    /\ "/w/proj/src" \in DOMAIN fs
    /\ TraversalFree

\* C9: the returned tree holds exactly the entries Kept describes, so a
\* directory that could not be listed stands in it with no children while
\* all that is beside it is there; and a call that listed a directory did
\* not fail.
C9_ReadFailureSwallowed ==
    /\ Returned =>
          /\ OutputPaths = {p \in FsPaths : Kept(p)}
          /\ \A e \in OutputEntries :
                (e.node.isDirectory /\ ~Lookup(absolutePath \o "/" \o e.path).readable)
                => e.node.children = <<>>
    /\ (impl = "inprocess" /\ \E i \in 1..Len(fsOps) : fsOps[i].op = "readdirSync")
          => pc # "failed"

\* src could not be listed: it is in the tree without children, and
\* level1_dir, listed after it, is there with all of its content.
C9_Witness ==
    /\ Returned
    /\ "src/alpha.ts" \in FsPaths
    /\ ~Lookup(absolutePath \o "/src").readable
    /\ \E e \in OutputEntries : e.path = "src" /\ e.node.children = <<>>
    /\ {"level1_dir", "level1_dir/level2_file.txt",
        "level1_dir/level2_dir/level3_file.txt"} \subseteq OutputPaths

\* The positions of a tree's nodes, each a sequence of indexes from the
\* root's sibling list down, each node followed by its children.
RECURSIVE PreorderFrom(_, _, _)
PreorderFrom(ns, prefix, i) ==
    IF i > Len(ns) THEN <<>>
    ELSE <<Append(prefix, i)>>
         \o (IF "children" \in DOMAIN ns[i]
             THEN PreorderFrom(ns[i].children, Append(prefix, i), 1) ELSE <<>>)
         \o PreorderFrom(ns, prefix, i + 1)

\* The sibling list that holds the node at position ip.
RECURSIVE SiblingsAt(_, _)
SiblingsAt(ns, ip) ==
    IF Len(ip) = 1 THEN ns ELSE SiblingsAt(ns[ip[1]].children, Tail(ip))

NodeAt(ns, ip) == SiblingsAt(ns, ip)[ip[Len(ip)]]

IsLastAt(ns, ip) == ip[Len(ip)] = Len(SiblingsAt(ns, ip))

\* The prefix the claim gives the node at position ip.
ExpectedPrefix(ns, ip) ==
    JoinWith([j \in 1..(Len(ip) - 1) |->
                 IF IsLastAt(ns, SubSeq(ip, 1, j)) THEN "    " ELSE "|   "], "")
    \o (IF IsLastAt(ns, ip) THEN "\\-- " ELSE "+-- ")

\* C10: the line of every node is its prefix and its name; the prefix has
\* four characters per level, the indent of each ancestor and then the
\* branch, and the corner is drawn for the last sibling and for no other.
C10_LinePrefix ==
    Returned =>
        LET ips == PreorderFrom(nodes, <<>>, 1)
            ls == Lines(result)
        IN  /\ Len(ls) = Len(ips) + 1
            /\ \A k \in 1..Len(ips) :
                  LET ip == ips[k]
                      line == ls[k + 1]
                      name == NodeAt(nodes, ip).name
                  IN  /\ line = ExpectedPrefix(nodes, ip) \o name
                      /\ Len(line) - Len(name) = 4 * Len(ip)
                      /\ CharAt(line, 4 * Len(ip) - 3) = "\\" <=> IsLastAt(nodes, ip)

\* A text with both indents: below level1_dir, which is not the last of its
\* siblings, and below src, which is.
C10_Witness ==
    /\ Returned
    /\ Includes(result, "\n|   |   \\-- level3_file.txt\n")
    /\ Includes(result, "\n    |   \\-- out.js\n")

\* C11: the returned text is the root directory's name and a newline, then
\* for every node of the tree, in depth-first pre-order, one line that ends
\* in the node's name and a newline, and nothing after the last newline; a
\* tree without nodes gives the root line alone.
C11_OutputText ==
    Returned =>
        LET ips == PreorderFrom(nodes, <<>>, 1)
            parts == Split(result, "\n")
        IN  /\ Len(parts) = Len(ips) + 2
            /\ parts[Len(parts)] = ""
            /\ parts[1] = PathBasename(absolutePath)
            /\ ~Includes(parts[1], " ")
            /\ \A k \in 1..Len(ips) :
                  LET name == NodeAt(nodes, ips[k]).name
                  IN  /\ EndsWith(parts[k + 1], " " \o name)
                      /\ Len(parts[k + 1]) = 4 * Len(ips[k]) + Len(name)
            /\ \A k \in 1..(Len(ips) - 1) :
                  "children" \in DOMAIN NodeAt(nodes, ips[k])
                  /\ Len(NodeAt(nodes, ips[k]).children) > 0
                  => ips[k + 1] = Append(ips[k], 1)
            /\ Len(nodes) = 0 => result = "proj\n"

\* The root holds entries and none of them is in the tree, so that the text
\* is the root line alone.
C11_Witness ==
    /\ Returned
    /\ "src/alpha.ts" \in FsPaths
    /\ "level1_dir/level2_file.txt" \in FsPaths
    /\ options.maxDepth = Some(0)
    /\ nodes = <<>>
    /\ result = "proj\n"

\* C12: when a second call with the same target path and the same options
\* object has returned on the unchanged file system, its text is the text
\* the first call returned.
C12_Idempotent ==
    (Returned /\ firstResult # None) => result = firstResult

\* The second call started with baseDirectory already set by the first one
\* and returned a tree with nested lines.
C12_Witness ==
    /\ Returned
    /\ firstResult # None
    /\ options.baseDirectory = Some(ProjRoot)
    /\ options.showHidden = Some(TRUE)
    /\ Len(fsOps) > 6
    /\ Includes(result, "\n    +-- alpha.ts\n")

(***************************************************************************)
(* What the properties of parseTreeArgs speak about.                       *)
(***************************************************************************)
ParseDone == parse.pc = "done"

\* The loop is about to handle the token at parse.i.
AtToken == parse.pc = "loop" /\ parse.i <= Len(parse.args)

IsInteger(token) == ~IsNaN(ParseInt(token))

Max(S) == CHOOSE x \in S : \A y \in S : y <= x

\* The positions among the first k of a list that hold the number of a -L:
\* the token before is -L, is not itself such a number, and the token parses.
RECURSIVE NumberPositions(_, _)
NumberPositions(a, k) ==
    IF k <= 1 THEN {}
    ELSE LET before == NumberPositions(a, k - 1)
         IN  IF a[k - 1] = "-L" /\ (k - 1) \notin before /\ IsInteger(a[k])
             THEN before \cup {k} ELSE before

Numbers(a) == NumberPositions(a, Len(a))

Suffix(token) == SubSeq(token, 3, Len(token))

\* Position k holds a valid depth flag: -L before a number, or -L<n>.
IsDepthFlag(a, k) ==
    /\ k \notin Numbers(a)
    /\ \/ a[k] = "-L" /\ k < Len(a) /\ IsInteger(a[k + 1])
       \/ a[k] # "-L" /\ StartsWith(a[k], "-L") /\ IsInteger(Suffix(a[k]))

DepthAt(a, k) ==
    IF a[k] = "-L" THEN ParseInt(a[k + 1])[1] ELSE ParseInt(Suffix(a[k]))[1]

DepthFlags(a) == {k \in 1..Len(a) : IsDepthFlag(a, k)}

\* Position k holds a -L without a number after it.
IsBareL(a, k) == a[k] = "-L" /\ (k = Len(a) \/ ~IsInteger(a[k + 1]))

RemoveAt(a, k) == SubSeq(a, 1, k - 1) \o SubSeq(a, k + 1, Len(a))

ParseResult == [path |-> parse.targetPath, options |-> parse.options]

\* C13: the iteration at a -L that stands before a number sets maxDepth to
\* that number and goes on behind the number, touching nothing else; the
\* iteration at a -L<n> sets maxDepth to n; and the maxDepth returned is the
\* depth of the last valid depth flag of the list.
C13_DepthFlags ==
    /\ [](ParseDone =>
            (DepthFlags(parse.args) # {} =>
                parse.options.maxDepth
                    = Some(DepthAt(parse.args, Max(DepthFlags(parse.args))))))
    /\ [][AtToken =>
            LET a == parse.args
                i == parse.i
            IN  /\ (a[i] = "-L" /\ i < Len(a) /\ IsInteger(a[i + 1])) =>
                      /\ parse'.i = i + 2
                      /\ parse'.options.maxDepth = Some(ParseInt(a[i + 1])[1])
                      /\ parse'.options.showHidden = parse.options.showHidden
                      /\ parse'.targetPath = parse.targetPath
                /\ (a[i] # "-L" /\ StartsWith(a[i], "-L") /\ IsInteger(Suffix(a[i]))) =>
                      /\ parse'.i = i + 1
                      /\ parse'.options.maxDepth = Some(ParseInt(Suffix(a[i]))[1])
                      /\ parse'.options.showHidden = parse.options.showHidden
                      /\ parse'.targetPath = parse.targetPath]_vars

\* Both forms in one list, the number 2 taken by the first -L and the later
\* flag deciding.
C13_Witness ==
    /\ ParseDone
    /\ parse.args = <<"-L", "2", "-L3">>
    /\ parse.options.maxDepth = Some(3)
    /\ parse.targetPath = "."

\* C14: the iteration at a -L that is the last token, or whose next token
\* does not parse as an integer, changes nothing and goes on with the next
\* token; the list is parsed as the list without that -L is, and without a
\* valid depth flag maxDepth stays unset.
C14_BareL ==
    /\ [](ParseDone =>
            /\ \A k \in 1..Len(parse.args) :
                  IsBareL(parse.args, k)
                  => ParseResult = ParseTreeArgs(RemoveAt(parse.args, k))
            /\ DepthFlags(parse.args) = {} => parse.options.maxDepth = Unset)
    /\ [][(AtToken /\ IsBareL(parse.args, parse.i)) =>
            /\ parse'.i = parse.i + 1
            /\ parse'.options = parse.options
            /\ parse'.targetPath = parse.targetPath]_vars

\* The token after the -L became the path, the flag after it was seen.
C14_Witness ==
    /\ ParseDone
    /\ parse.args = <<"-L", "src", "-a">>
    /\ parse.options.maxDepth = Unset
    /\ parse.options.showHidden
    /\ parse.targetPath = "src"

\* C15: the path returned is the last token that does not start with '-'
\* and is not the number of a -L, and "." when the list has no such token.
C15_Path ==
    ParseDone =>
        LET a == parse.args
            paths == {k \in 1..Len(a) : ~StartsWith(a[k], "-") /\ k \notin Numbers(a)}
        IN  parse.targetPath = IF paths = {} THEN "." ELSE a[Max(paths)]

\* The last token without '-' is the number of the -L: the path is the
\* token before.
C15_Witness ==
    /\ ParseDone
    /\ parse.args = <<"src", "-L", "2">>
    /\ parse.targetPath = "src"
    /\ parse.options.maxDepth = Some(2)

\* C16: the loop handles every token and returns; showHidden is true exactly
\* when the list holds -a or --all; the iteration at any other token that
\* starts with '-' and is not a valid depth flag changes nothing; and
\* scenario F gives maxDepth 2, showHidden false and the path ".".
C16_Flags ==
    /\ [](parse.pc = "loop" =>
            /\ parse.i \in 1..(Len(parse.args) + 1)
            /\ ENABLED (ParseStep \/ ParseReturn))
    /\ [](ParseDone =>
            /\ parse.options.showHidden
                  <=> \E k \in 1..Len(parse.args) : parse.args[k] \in {"-a", "--all"}
            /\ parse.args = <<"-L", "2", "--noreport">> =>
                  /\ parse.options.maxDepth = Some(2)
                  /\ parse.options.showHidden = FALSE
                  /\ parse.targetPath = ".")
    /\ [][(/\ AtToken
           /\ StartsWith(parse.args[parse.i], "-")
           /\ parse.args[parse.i] \notin {"-a", "--all"}
           /\ ~IsDepthFlag(parse.args, parse.i)) =>
            /\ parse'.i = parse.i + 1
            /\ parse'.options = parse.options
            /\ parse'.targetPath = parse.targetPath]_vars

\* Scenario F has been parsed.
C16_Witness ==
    /\ ParseDone
    /\ parse.args = <<"-L", "2", "--noreport">>
    /\ parse.options = [maxDepth |-> Some(2), showHidden |-> FALSE, excludeGit |-> TRUE]
    /\ parse.targetPath = "."

\* C17: the directory of an fd-based call is the target resolved against the
\* working directory of the process when GTREE_BASE_PATH is unset or empty,
\* the target itself when the variable is set and the target is absolute,
\* and the target resolved against the variable's value otherwise; the
\* checks look at that directory and every child process runs in it.
C17_ScannedDirectory ==
    impl = "fd" =>
        /\ absolutePath =
              IF basePath \in {Undefined, ""} THEN PathResolve2(Cwd, targetPath)
              ELSE IF IsAbsolute(targetPath) THEN targetPath
              ELSE PathResolve2(basePath, targetPath)
        /\ \A k \in 1..Len(fsOps) : fsOps[k].path = absolutePath
        /\ \A k \in 1..Len(spawned) : spawned[k].cwd = absolutePath
        /\ child.fdProcess # "none" => Len(spawned) >= 1 /\ spawned[1].command = "fd"
        /\ child.treeProcess # "none" => Len(spawned) = 2 /\ spawned[2].command = "tree"

\* A relative target under a base path that is not the working directory:
\* fd and tree have both been started in the directory below the base.
C17_Witness ==
    /\ impl = "fd"
    /\ basePath = "/w"
    /\ targetPath = "proj"
    /\ absolutePath = "/w/proj"
    /\ PathResolve(targetPath) # absolutePath
    /\ child.treeProcess = "running"
    /\ spawned[1].cwd = "/w/proj"
    /\ spawned[2].cwd = "/w/proj"

\* The scan of a tool call is running or has run.
ToolScans == tool.pc # "idle" /\ pc \in {"ignore", "scan", "format", "done"}

GivenArgs == IF IsSet(tool.params.args) THEN tool.params.args[1] ELSE <<>>

\* C18: a tool call with showHidden = true scans with showHidden = true
\* whatever args holds, and a maxDepth parameter is the depth of the scan
\* unless args holds a valid depth flag, whose depth is then used.
C18_ParametersStay ==
    ToolScans =>
        /\ tool.params.showHidden = Some(TRUE) => options.showHidden = Some(TRUE)
        /\ IsSet(tool.params.maxDepth) =>
              options.maxDepth =
                 IF DepthFlags(GivenArgs) # {}
                 THEN Some(DepthAt(GivenArgs, Max(DepthFlags(GivenArgs))))
                 ELSE tool.params.maxDepth

(***************************************************************************)
(* What the properties of CwdService speak about.                          *)
(***************************************************************************)
CwdDone == cwd.pc = "done"

WhiteSpace == {" ", "\t", "\n", "\r"}

\* The basePath argument is a string that is not empty after trimming.
BasePathGiven ==
    /\ cwd.method = "getCwdInfo"
    /\ cwd.basePath # Undefined
    /\ \E i \in 1..Len(cwd.basePath) : CharAt(cwd.basePath, i) \notin WhiteSpace

\* The call has no other use for the working directory than the path it
\* reports: no relative basePath argument is to be resolved.
ReportsOnly == ~BasePathGiven \/ IsAbsolute(cwd.basePath)

FailurePrefix ==
    IF cwd.method = "getCwdInfo"
    THEN "Failed to get current working directory info: "
    ELSE "Failed to get current working directory: "

\* What both halves of C19 say about failures and about the calls without
\* GTREE_BASE_PATH.
CwdFallbackAndFailure ==
    /\ (~Truthy(cwd.env) /\ cwd.error = None) => cwd.reply.absolute = Some(PathResolve(Cwd))
    /\ (~Truthy(cwd.env) /\ ~cwd.cwdFails) => cwd.error = None /\ cwd.cwdCalls >= 1
    /\ cwd.error # None =>
          /\ cwd.cwdFails
          /\ cwd.error = FailurePrefix \o CwdErrorMessage
          /\ cwd.reply = NoReply

\* C19 as stated: with GTREE_BASE_PATH set and not empty both methods report
\* its resolved value and never ask for the working directory of the
\* process; otherwise they report the resolved working directory; a failure
\* is reported with the method's message.
C19_AsStated ==
    CwdDone =>
        /\ (Truthy(cwd.env) /\ ReportsOnly) =>
              /\ cwd.cwdCalls = 0
              /\ cwd.error = None
              /\ cwd.reply.absolute = Some(PathResolve(cwd.env))
        /\ CwdFallbackAndFailure

\* C19: with GTREE_BASE_PATH set and not empty both methods report its
\* resolved value, without asking for the working directory of the process
\* when the value is absolute, and resolved against that directory when it
\* is relative; otherwise they report the resolved working directory; a
\* failure is reported with the method's message.
C19_Absolute ==
    CwdDone =>
        /\ (Truthy(cwd.env) /\ IsAbsolute(cwd.env) /\ ReportsOnly) =>
              /\ cwd.cwdCalls = 0
              /\ cwd.error = None
        /\ (Truthy(cwd.env) /\ cwd.error = None) =>
              cwd.reply.absolute = Some(PathResolve2(Cwd, cwd.env))
        /\ (Truthy(cwd.env) /\ ~IsAbsolute(cwd.env)) =>
              /\ cwd.cwdCalls >= 1
              /\ cwd.cwdFails <=> cwd.error # None
        /\ CwdFallbackAndFailure

\* The working directory cannot be looked up and GTREE_BASE_PATH is
\* absolute: getCwdInfo reports its normalised value.
C19_Witness ==
    /\ CwdDone
    /\ cwd.method = "getCwdInfo"
    /\ cwd.env = "/w/proj/../other"
    /\ cwd.cwdFails
    /\ cwd.cwdCalls = 0
    /\ cwd.error = None
    /\ cwd.reply = [NoReply EXCEPT !.absolute = Some("/w/other")]

\* C20: what getCwdInfo returns has the fields basePath and relative exactly
\* when the basePath argument is a string that is not empty after trimming;
\* basePath is then the resolved argument and relative the path from it to
\* the absolute path reported; otherwise the result has absolute only.
C20_InfoFields ==
    (CwdDone /\ cwd.method = "getCwdInfo" /\ cwd.error = None) =>
        /\ IsSet(cwd.reply.absolute)
        /\ IsSet(cwd.reply.basePath) <=> BasePathGiven
        /\ IsSet(cwd.reply.relative) <=> BasePathGiven
        /\ BasePathGiven =>
              /\ cwd.reply.basePath = Some(PathResolve2(Cwd, cwd.basePath))
              /\ cwd.reply.relative
                    = Some(PathRelative(cwd.reply.basePath[1], cwd.reply.absolute[1]))
              /\ PathResolve2(cwd.reply.basePath[1], cwd.reply.relative[1])
                    = cwd.reply.absolute[1]
        /\ (cwd.basePath = "/w/proj/src/lib" /\ ~Truthy(cwd.env)) =>
              cwd.reply.relative = Some("../..")
        /\ (cwd.basePath = "/w" /\ cwd.env = "/srv/base") =>
              cwd.reply.relative = Some("../srv/base")

\* A base below the working directory: the relative path climbs out of it.
C20_Witness ==
    /\ CwdDone
    /\ cwd.method = "getCwdInfo"
    /\ cwd.env = Undefined
    /\ cwd.basePath = "/w/proj/src/lib"
    /\ cwd.reply = [absolute |-> Some("/w/proj"), relative |-> Some("../.."),
                     basePath |-> Some("/w/proj/src/lib")]

(***************************************************************************)
(* What the property of the ignores predicate speaks about.                *)
(***************************************************************************)
HasSlash(s) == \E i \in 1..Len(s) : CharAt(s, i) = "/"

\* s occupies a whole segment of path: it stands between two '/' or ends.
IsSegmentOf(s, path) ==
    /\ ~HasSlash(s)
    /\ \E i \in 1..(Len(path) + 1) :
          /\ i + Len(s) - 1 <= Len(path)
          /\ SubSeq(path, i, i + Len(s) - 1) = s
          /\ i = 1 \/ CharAt(path, i - 1) = "/"
          /\ i + Len(s) - 1 = Len(path) \/ CharAt(path, i + Len(s)) = "/"

\* The three rules of the claim for one pattern.
RuleMatches(p, path) ==
    LET prefix == SubSeq(p, 1, Len(p) - 3)
    IN  \/ /\ EndsWith(p, "/**")
           /\ path = prefix \/ StartsWith(path, prefix \o "/")
        \/ /\ HasSlash(p)
           /\ ~EndsWith(p, "/**")
           /\ \E i \in 1..Len(path) :
                 i + Len(p) - 1 <= Len(path) /\ SubSeq(path, i, i + Len(p) - 1) = p
        \/ /\ ~HasSlash(p)
           /\ IsSegmentOf(p, path)

\* C21: for a path without backslashes the predicate answers true exactly
\* when some pattern of the set matches by its rule; the answer is that of
\* the set of patterns, whatever their order and number of occurrences.
C21_IgnoreRules ==
    (ig.pc = "done" /\ ~Includes(ig.filePath, "\\")) =>
        /\ ig.result <=>
              \E p \in {ig.patterns[i] : i \in 1..Len(ig.patterns)} :
                 RuleMatches(p, ig.filePath)
        /\ \A other \in IgnorePatternLists :
              {other[i] : i \in 1..Len(other)}
                 = {ig.patterns[i] : i \in 1..Len(ig.patterns)}
              => Ignores(other, ig.filePath) = ig.result

\* A list whose last pattern alone matches, as a whole segment of the path.
C21_Witness ==
    /\ ig.pc = "done"
    /\ ig.patterns = <<"dir/sub", "build">>
    /\ ig.filePath = "src/build/out.js"
    /\ ig.result

\* The ignore instance of an in-process call has been built.
IgnoreBuilt == impl = "inprocess" /\ pc \in {"scan", "format", "done"}

RootGitignore == absolutePath \o "/.gitignore"

\* The lines the texts of the model's .gitignore files hold, trimmed and
\* without the empty ones and the comments.
GitignoreLines(content) ==
    CASE content = GitignoreB -> <<"ignored_file.txt", "ignored_dir/">>
      [] content = "# build output\r\n\r\n  src/build/**  \nlevel2_dir\nalpha.ts\n"
            -> <<"src/build/**", "level2_dir", "alpha.ts">>
      [] content = "level1_dir/level2\n.hidden\n" -> <<"level1_dir/level2", ".hidden">>
      [] content = "" -> <<>>

\* C22: the pattern list of a scan is the three defaults and then the lines
\* of <root>/.gitignore, or the defaults alone when that file is missing or
\* cannot be read; building the list fails no call; and no other file is
\* read, whatever .gitignore the directories below hold.
C22_PatternList ==
    /\ IgnoreBuilt =>
          /\ allIgnores =
                <<".git", ".DS_Store", "node_modules">> \o
                (IF RootGitignore \in DOMAIN fs /\ fs[RootGitignore].readable
                 THEN GitignoreLines(fs[RootGitignore].content)
                 ELSE <<>>)
          /\ \A i \in 1..Len(allIgnores) :
                /\ allIgnores[i] # ""
                /\ ~StartsWith(allIgnores[i], "#")
                /\ \A c \in WhiteSpace :
                      ~StartsWith(allIgnores[i], c) /\ ~EndsWith(allIgnores[i], c)
          /\ \A i \in 1..Len(fsOps) :
                /\ fsOps[i].op = "readFileSync" => fsOps[i].path = RootGitignore
                /\ fsOps[i].op = "existsSync" =>
                      fsOps[i].path \in {absolutePath, RootGitignore}
    /\ (impl = "inprocess" /\ pc = "failed") =>
          \A i \in 1..Len(fsOps) : fsOps[i].path # PathResolve(targetPath) \o "/.gitignore"

\* The root's .gitignore was read and the one in src was not: what src's
\* own file names is in the tree.
C22_Witness ==
    /\ Returned
    /\ allIgnores = defaultIgnores \o <<"ignored_file.txt", "ignored_dir/">>
    /\ "src/.gitignore" \in FsPaths
    /\ Lookup(absolutePath \o "/src/.gitignore").content = "alpha.ts\nbuild/\n"
    /\ {"src/alpha.ts", "src/build"} \subseteq OutputPaths

NonNegative(maxDepth) == IsSet(maxDepth) => maxDepth[1] >= 0

\* C23: the maxDepth that parseTreeArgs returns for the args of a tool call,
\* and the maxDepth with which the tool's scan runs, is unset or a
\* non-negative integer.
C23_NonNegativeDepth ==
    ToolScans =>
        /\ NonNegative(ParseTreeArgs(GivenArgs).options.maxDepth)
        /\ NonNegative(options.maxDepth)

(***************************************************************************)
(* What the properties of the two child processes speak about.             *)
(***************************************************************************)
TreeSpawns == {k \in 1..Len(spawned) : spawned[k].command = "tree"}

FdSpawns == {k \in 1..Len(spawned) : spawned[k].command = "fd"}

FdClosedWith(code) == child.fdCode = Some(code)

\* C24: tree is spawned at most once, after fd and only when fd has closed
\* with code 0, whatever fd wrote on stderr; in fd's working directory, with
\* '.', '--fromfile', '-F', '--dirsfirst', '-C' and then the caller's
\* treeArgs; and never when fd closed with another code.
C24_TreeSpawn ==
    impl = "fd" =>
        /\ Cardinality(TreeSpawns) <= 1
        /\ \A k \in TreeSpawns :
              /\ FdClosedWith(0)
              /\ \E j \in FdSpawns : j < k /\ spawned[j].cwd = spawned[k].cwd
              /\ spawned[k].args = <<".", "--fromfile", "-F", "--dirsfirst", "-C">> \o treeArgs
        /\ FdClosedWith(0) => TreeSpawns # {}
        /\ (IsSet(child.fdCode) /\ ~FdClosedWith(0)) => TreeSpawns = {}

\* fd wrote on stderr and closed with 0, and tree runs with the caller's -L 2.
C24_Witness ==
    /\ FdClosedWith(0)
    /\ Trim(child.fdErrorOutput) # ""
    /\ TreeSpawns # {}
    /\ treeArgs = <<"-L", "2">>
    /\ child.warnings = <<"fd command stderr (non-fatal): er">>

PromiseSettled == child.promise # "pending"

\* The step is the close handler of fd, or of tree, seeing this code.
FdClosesWith(code) == ~IsSet(child.fdCode) /\ child'.fdCode = Some(code)

TreeClosesWith(code) == ~IsSet(child.treeCode) /\ child'.treeCode = Some(code)

FdErrors == ~child.fdErrored /\ child'.fdErrored

TreeErrors == ~child.treeErrored /\ child'.treeErrored

RejectedWith(message) == child'.promise = "rejected" /\ error' = message

Blank(text) == \A i \in 1..Len(text) : SubSeq(text, i, i) \in WhiteSpace

C27_NoTreeAfterReject ==
    [][(child.promise = "rejected" /\ child.treeProcess = "none") =>
          /\ child'.treeProcess = "none"
          /\ spawned' = spawned
          /\ child'.stdin = child.stdin]_vars

\* An event that calls resolvePromise or rejectPromise.
OutcomeEvent ==
    FdErrors \/ TreeErrors \/ FdClosesWith(1) \/ TreeClosesWith(0) \/ TreeClosesWith(1)

\* C28: when every spawned process ends with 'close' or 'error', the promise
\* of a call that passed the preconditions is settled in the end; the first
\* outcome settles it, and no later event changes the outcome, the value or
\* the message.
C28_Settles ==
    /\ (impl = "fd" /\ pc = "fd_running") ~> PromiseSettled
    /\ [][/\ (child.promise = "pending" /\ OutcomeEvent) => child'.promise # "pending"
          /\ PromiseSettled =>
                /\ child'.promise = child.promise
                /\ result' = result
                /\ error' = error]_vars

\* The promise was rejected by fd's 'error', and fd and tree closed with 0
\* afterwards without changing it.
C28_Witness ==
    /\ child.promise = "rejected"
    /\ child.fdErrored
    /\ child.fdCode = Some(0)
    /\ child.treeCode = Some(0)
    /\ error = "Failed to start fd process: spawn ENOENT"

CwdToolDone == CwdDone /\ cwd.text # None

\* The reply of the cwd tool to a call without basePath.
ReplyWithoutBasePath ==
    LET r == CurrentWorkingDirectory(cwd.env, cwd.cwdFails)
    IN  IF r.ok THEN "Current working directory: " \o r.value
        ELSE "Error: Failed to get current working directory: " \o r.message

\* C29: the cwd tool answers a basePath that is empty or all whitespace as
\* it answers a call without basePath, and no reply of the tool holds the
\* text "Base path: undefined".
C29_BlankBasePath ==
    CwdToolDone =>
        /\ (cwd.param # Undefined /\ Blank(cwd.param)) => cwd.text = ReplyWithoutBasePath
        /\ ~Includes(cwd.text, "Base path: undefined")

====
